---------------------------- MODULE Spec2Model ----------------------------
(***************************************************************************)
(* A model of the ATR / RVOL intraday strategy:                            *)
(*   - run_backtest (src/rvoll_calculator.py), the day-segmented           *)
(*     Flat / Long / Short state machine with its ledger and snapshots;    *)
(*   - expected_cumvol / build_expected_cumvol, the rolling expected       *)
(*     cumulative-volume curve;                                            *)
(*   - daily_indicators + attach_yesterday_daily_to_minutes, the daily     *)
(*     indicator frame joined onto the intraday bars.                      *)
(*                                                                         *)
(* Floating point numbers are modelled as exact extended rationals, a pair *)
(* <<numerator, denominator>> in lowest terms with denominator >= 0:       *)
(* <<0,0>> is NaN, <<1,0>> is +inf and <<-1,0>> is -inf.                   *)
(***************************************************************************)
EXTENDS Integers, Sequences, FiniteSets, TLC

VARIABLES
    \* ---- run_backtest --------------------------------------------------
    ndays,              \* number of groups df.groupby(df.index.date) yields
    day,                \* 1-based number of the group being processed
    day_df,             \* the bars of the current group (<<>> between groups)
    idx,                \* 1-based number of the next row of day_df.iterrows()
    cash,
    position,           \* 0: flat, 1: long, -1: short
    shares,
    trades,             \* the ledger, a sequence of rows
    portfolio_history,  \* the snapshots, a sequence of rows
    returned,           \* TRUE once run_backtest has returned
    report,             \* what evaluate_performance printed (NoReport before)
    \* ---- expected_cumvol / build_expected_cumvol -------------------------
    min_df,             \* intraday volumes: session -> slot -> volume or NoBar
    alt_min_df,         \* a second input with the same bar timestamps
    exp_cum,            \* the curve computed from min_df   (<<>> before the call)
    alt_exp_cum,        \* the curve computed from alt_min_df
    cum_call,
    cum_window,         \* the rolling window of that call, in sessions
    joined,             \* the frame intraday_rvol returns for min_df (<<>> before)           \* which function produced the curves
    \* ---- daily_indicators / attach_yesterday_daily_to_minutes ------------
    daily_df,           \* daily bars, one per session
    alt_daily_df,       \* daily_df with the bar of session chg_day replaced
    chg_day,            \* the session whose daily bar differs
    rvol_lookback,      \* Config.RVOL_LOOKBACK_DAYS of the run
    daily_ind,          \* daily_indicators(daily_df)      (<<>> before the call)
    alt_daily_ind,      \* daily_indicators(alt_daily_df)
    enriched,           \* per session, the values attached to its intraday bars
    alt_enriched,       \* the same, computed from alt_daily_df
    \* ---- technical_indicator: atr, rvol, price_deviation ------------------
    ind_df,             \* the bar series given to the indicator
    alt_ind_df,         \* ind_df with bars after position cut mutated or removed
    cut,                \* the two series agree on the bars 1..cut
    ind_call,           \* the call made: function, window, method, alpha, mode
    ind_out,            \* the series returned for ind_df   (<<>> before the call)
    alt_ind_out,        \* the series returned for alt_ind_df
    \* ---- daily_handler: daily_data_rvol, daily_data_atr; method checks ------
    df_daily,           \* the daily frame, a sequence of bars
    volume_df,          \* daily_data_feature(df_daily, "volume"): column -> series
    hd_call,            \* the call made: function, lookback, ema, method, mode
    hd_out,             \* the series returned (<<>> before the call or on a raise)
    hd_raised,          \* the exception raised, "" when none
    \* ---- config.py ---------------------------------------------------------
    config,             \* the module globals of config.py
    cfg_call            \* the last override call: its arguments and its route

btvars    == <<ndays, day, day_df, idx, cash, position, shares, trades,
               portfolio_history, returned, report>>
cumvars   == <<min_df, alt_min_df, exp_cum, alt_exp_cum, cum_call, cum_window, joined>>
dailyvars == <<daily_df, alt_daily_df, chg_day, rvol_lookback, daily_ind,
               alt_daily_ind, enriched, alt_enriched>>
indvars   == <<ind_df, alt_ind_df, cut, ind_call, ind_out, alt_ind_out>>
hdvars    == <<df_daily, volume_df, hd_call, hd_out, hd_raised>>
cfgvars   == <<config, cfg_call>>
vars      == <<btvars, cumvars, dailyvars, indvars, hdvars, cfgvars>>

---------------------------------------------------------------------------
(* Extended rational arithmetic (IEEE-like: NaN propagates, x/0 = +-inf). *)

NaN    == <<0, 0>>
PosInf == <<1, 0>>
NegInf == <<-1, 0>>

Abs(x) == IF x < 0 THEN -x ELSE x
Sign(x) == IF x < 0 THEN -1 ELSE IF x > 0 THEN 1 ELSE 0

RECURSIVE GCD(_, _)
GCD(a, b) == IF b = 0 THEN a ELSE GCD(b, a % b)

RNorm(n, d) ==
    IF d = 0 THEN <<Sign(n), 0>>
    ELSE LET g == GCD(Abs(n), Abs(d))
             s == Sign(d)
         IN  <<(s * n) \div g, (s * d) \div g>>

R(n)       == <<n, 1>>
IsNaN(a)   == a = NaN
IsInf(a)   == a[2] = 0 /\ a[1] # 0

RAdd(a, b) ==
    IF IsNaN(a) \/ IsNaN(b) THEN NaN
    ELSE IF IsInf(a) /\ IsInf(b) THEN (IF a = b THEN a ELSE NaN)
    ELSE RNorm(a[1] * b[2] + b[1] * a[2], a[2] * b[2])
RNeg(a)    == <<-a[1], a[2]>>
RSub(a, b) == RAdd(a, RNeg(b))
RMul(a, b) == IF IsNaN(a) \/ IsNaN(b) THEN NaN
              ELSE RNorm(a[1] * b[1], a[2] * b[2])
RDiv(a, b) == IF IsNaN(a) \/ IsNaN(b) THEN NaN
              ELSE RNorm(a[1] * b[2], a[2] * b[1])
RAbs(a)    == <<Abs(a[1]), a[2]>>
\* comparisons are FALSE as soon as one side is NaN
RGt(a, b)  == ~IsNaN(a) /\ ~IsNaN(b) /\ a[1] * b[2] > b[1] * a[2]
RLt(a, b)  == RGt(b, a)
\* max(skipna=True) of two values
RMax(a, b) == IF IsNaN(a) THEN b ELSE IF IsNaN(b) THEN a
              ELSE IF RGt(b, a) THEN b ELSE a

---------------------------------------------------------------------------
(* Config of rvoll_calculator.py                                          *)

INITIAL_CAPITAL      == 10000
TRADE_SHARES         == 100
RVOL_ENTRY_THRESHOLD == <<3, 2>>     \* 1.5
ATR_BAND_MULTIPLIER  == <<3, 2>>     \* 1.5
ATR_LOOKBACK_DAYS    == 5
ROLLING_WINDOW_DAYS  == 5
RVOL_ALPHA           == <<1, 2>>     \* 0.5

---------------------------------------------------------------------------
(* Bounds of the model                                                    *)

MaxSessions == 2      \* groups (calendar dates) of the frame given to run_backtest
MaxBars     == 2      \* rows of one group

\* The rows a group is drawn from: Close is a price, the indicator columns
\* may be undefined (warm-up).  Threshold 3/2, strict comparisons.
Row(c, r, u, l) ==
    [Close |-> c, Intraday_RVOL_cum |-> r, Y_ATR_Upper |-> u, Y_ATR_Lower |-> l]

Rows ==
    { Row(R(12), R(2),     R(11), R(9)),     \* long signal
      Row(R(8),  R(2),     R(11), R(9)),     \* short signal
      Row(R(13), <<3, 2>>, R(11), R(9)),     \* RVOL equal to the threshold
      Row(R(10), R(2),     R(10), R(10)),    \* Close equal to both bands
      Row(R(12), NaN,      R(11), R(9)),     \* RVOL undefined
      Row(R(7),  R(2),     NaN,   NaN) }     \* bands undefined

RECURSIVE SeqsUpTo(_, _)
SeqsUpTo(S, n) ==
    IF n = 0 THEN {<<>>}
    ELSE LET prev == SeqsUpTo(S, n - 1)
         IN  prev \cup {Append(s, x) : s \in {p \in prev : Len(p) = n - 1}, x \in S}

Groups == SeqsUpTo(Rows, MaxBars) \ {<<>>}

---------------------------------------------------------------------------
(* run_backtest                                                           *)

\* the index of a row: (date of the group, position within the group)
Stamp(d, i) == <<d, i>>

TradeRow(stamp, action, sh, price, cost, credit) ==
    [Date |-> stamp, Action |-> action, Shares |-> sh, Price |-> price,
     Cost |-> cost, Credit |-> credit]

\* faulty variant of LongCond: RVOL >= threshold
LongCondNoStrict(row) ==
    /\ ~RLt(row.Intraday_RVOL_cum, RVOL_ENTRY_THRESHOLD)
    /\ ~IsNaN(row.Intraday_RVOL_cum)
    /\ RGt(row.Close, row.Y_ATR_Upper)
\* faulty variant of LongCond: written as negated <=, which an undefined
\* value passes
LongCondNegated(row) ==
    /\ ~(RLt(row.Intraday_RVOL_cum, RVOL_ENTRY_THRESHOLD)
            \/ row.Intraday_RVOL_cum = RVOL_ENTRY_THRESHOLD)
    /\ ~(RLt(row.Close, row.Y_ATR_Upper) \/ row.Close = row.Y_ATR_Upper)
LongCond(row) ==
    /\ RGt(row.Intraday_RVOL_cum, RVOL_ENTRY_THRESHOLD)
    /\ RGt(row.Close, row.Y_ATR_Upper)

ShortCond(row) ==
    /\ RGt(row.Intraday_RVOL_cum, RVOL_ENTRY_THRESHOLD)
    /\ RLt(row.Close, row.Y_ATR_Lower)

\* evaluate_performance has not been called
NoReport == [status |-> "none"]

InitBacktest ==
    /\ ndays \in 0..MaxSessions
    /\ day = 0
    /\ day_df = <<>>
    /\ idx = 1
    /\ cash = R(INITIAL_CAPITAL)
    /\ position = 0
    /\ shares = 0
    /\ trades = <<>>
    /\ portfolio_history = <<>>
    /\ returned = FALSE
    /\ report = NoReport

InGroup == day_df # <<>>
AtRow   == InGroup /\ idx <= Len(day_df)

\* if position == 0: entries are evaluated only from flat
\* faulty variant of CanEnter: entries evaluated in every state
CanEnterAlways(pos) == TRUE
CanEnter(pos) == pos = 0

\* cash -= trade_cost (long, side 1) / cash += trade_credit (short, side -1)
\* faulty variant of CashAfterEntry: a short entry debits too
CashAfterEntryAlwaysDebit(c, side, amount) == RSub(c, amount)
CashAfterEntry(c, side, amount) ==
    IF side = 1 THEN RSub(c, amount) ELSE RAdd(c, amount)

\* for date, day_df in df.groupby(df.index.date): the next group is yielded
NextGroup ==
    /\ ~returned /\ ~InGroup /\ day < ndays
    /\ day' = day + 1
    /\ day_df' \in Groups
    /\ idx' = 1
    /\ UNCHANGED <<ndays, cash, position, shares, trades, portfolio_history, returned, report>>

\* one iteration of day_df.iterrows() taking the LONG branch
EnterLong ==
    /\ AtRow /\ CanEnter(position)
    /\ LET row == day_df[idx]
           trade_cost == RMul(R(TRADE_SHARES), row.Close)
       IN  /\ LongCond(row)
           /\ position' = 1
           /\ shares' = TRADE_SHARES
           /\ cash' = CashAfterEntry(cash, 1, trade_cost)
           /\ trades' = Append(trades,
                 TradeRow(Stamp(day, idx), "BUY", TRADE_SHARES, row.Close, trade_cost, NaN))
    /\ idx' = idx + 1
    /\ UNCHANGED <<ndays, day, day_df, portfolio_history, returned, report>>

\* one iteration taking the SHORT (elif) branch
EnterShort ==
    /\ AtRow /\ CanEnter(position)
    /\ LET row == day_df[idx]
           trade_credit == RMul(R(TRADE_SHARES), row.Close)
       IN  /\ ~LongCond(row)
           /\ ShortCond(row)
           /\ position' = -1
           /\ shares' = TRADE_SHARES
           /\ cash' = CashAfterEntry(cash, -1, trade_credit)
           /\ trades' = Append(trades,
                 TradeRow(Stamp(day, idx), "SELL_SHORT", TRADE_SHARES, row.Close, NaN, trade_credit))
    /\ idx' = idx + 1
    /\ UNCHANGED <<ndays, day, day_df, portfolio_history, returned, report>>

\* one iteration in which neither branch is taken: a position is already
\* open (the entry logic is skipped), or flat without a signal
NoEntry ==
    /\ AtRow
    /\ \/ ~CanEnter(position)
       \/ CanEnter(position) /\ ~LongCond(day_df[idx]) /\ ~ShortCond(day_df[idx])
    /\ idx' = idx + 1
    /\ UNCHANGED <<ndays, day, day_df, cash, position, shares, trades,
                   portfolio_history, returned, report>>

\* the end-of-day exit: the rows appended ...
\* faulty variant of ExitRows: no row for a covered short
ExitRowsLongOnly(pos, sh, stamp, last_price) ==
    IF pos = 1 THEN <<TradeRow(stamp, "SELL_CLOSE", sh, last_price, NaN, NaN)>>
    ELSE <<>>
ExitRows(pos, sh, stamp, last_price) ==
    IF pos = 1 THEN <<TradeRow(stamp, "SELL_CLOSE", sh, last_price, NaN, NaN)>>
    ELSE IF pos = -1 THEN <<TradeRow(stamp, "BUY_COVER", sh, last_price, NaN, NaN)>>
    ELSE <<>>

\* ... the cash after it ...
\* faulty variants of ExitCash: signs swapped; a covered short not charged
ExitCashSwapped(c, pos, sh, last_price) ==
    IF pos = 1 THEN RSub(c, RMul(R(sh), last_price))
    ELSE IF pos = -1 THEN RAdd(c, RMul(R(sh), last_price))
    ELSE c
ExitCashLongOnly(c, pos, sh, last_price) ==
    IF pos = 1 THEN RAdd(c, RMul(R(sh), last_price)) ELSE c
ExitCash(c, pos, sh, last_price) ==
    IF pos = 1 THEN RAdd(c, RMul(R(sh), last_price))
    ELSE IF pos = -1 THEN RSub(c, RMul(R(sh), last_price))
    ELSE c

\* ... and the position after it (position = 0 inside `if position != 0`)
\* faulty variant of PositionAfterExit: reset inside the long branch only
PositionAfterExitLongOnly(pos) == IF pos = 1 THEN 0 ELSE pos
PositionAfterExit(pos) == IF pos # 0 THEN 0 ELSE pos

\* portfolio_history.append(...), once per group, outside the `if`
\* faulty variant of Snapshot: append inside `if position != 0`
SnapshotIfTraded(hist, pos, date, value) ==
    IF pos # 0 THEN Append(hist, [Date |-> date, Portfolio_Value |-> value]) ELSE hist
Snapshot(hist, pos, date, value) ==
    Append(hist, [Date |-> date, Portfolio_Value |-> value])

\* after the inner loop: close any open position at the last bar, then record
\* the snapshot of the day
EndOfDay ==
    /\ InGroup /\ idx = Len(day_df) + 1
    /\ LET last_price == day_df[Len(day_df)].Close
           last_stamp == Stamp(day, Len(day_df))
           cash_after == ExitCash(cash, position, shares, last_price)
       IN  /\ cash' = cash_after
           /\ trades' = trades \o ExitRows(position, shares, last_stamp, last_price)
           /\ portfolio_history' = Snapshot(portfolio_history, position, day, cash_after)
    /\ position' = PositionAfterExit(position)
    /\ shares' = IF position # 0 THEN 0 ELSE shares
    /\ day_df' = <<>>
    /\ idx' = 1
    /\ UNCHANGED <<ndays, day, returned, report>>

\* return pd.DataFrame(trades), pd.DataFrame(portfolio_history)
Return ==
    /\ ~returned /\ ~InGroup /\ day = ndays
    /\ returned' = TRUE
    /\ UNCHANGED <<ndays, day, day_df, idx, cash, position, shares, trades,
                   portfolio_history, report>>

\* ---- evaluate_performance ------------------------------------------------

\* pnl of one (entry, exit) pair
\* faulty variants of PairPnl: the short formula left out; shares left out
PairPnlLongOnly(entry, exit) ==
    RMul(RSub(exit.Price, entry.Price), R(entry.Shares))
PairPnlNoShares(entry, exit) ==
    IF entry.Action = "BUY" THEN RSub(exit.Price, entry.Price)
    ELSE RSub(entry.Price, exit.Price)
PairPnl(entry, exit) ==
    IF entry.Action = "BUY"
    THEN RMul(RSub(exit.Price, entry.Price), R(entry.Shares))
    ELSE RMul(RSub(entry.Price, exit.Price), R(entry.Shares))

\* if pnl > 0: profits, else: losses
\* faulty variant of IsProfit: a pnl of zero counted as a win
IsProfitOrZero(pnl) == ~IsNaN(pnl) /\ ~RLt(pnl, R(0))
IsProfit(pnl) == RGt(pnl, R(0))

\* the pnl of every iteration of `for i in range(0, len(trades_df), 2)`;
\* with an odd length the last iteration has no trades_df.iloc[i+1]
PairPnls(ts) ==
    [j \in 1..(Len(ts) \div 2) |-> PairPnl(ts[2 * j - 1], ts[2 * j])]

RECURSIVE SumSeq(_)
SumSeq(xs) ==
    IF xs = <<>> THEN R(0)
    ELSE RAdd(SumSeq(SubSeq(xs, 1, Len(xs) - 1)), xs[Len(xs)])

\* evaluate_performance(trades_df, portfolio_df): the values it prints
\* faulty variant of EvaluatePerformance: the empty-ledger return left out
EvaluatePerformanceNoGuard(trades_df, portfolio_df) ==
    LET pnls == PairPnls(trades_df)
    IN  [status |-> "evaluated",
         final_value |-> IF portfolio_df = <<>> THEN NaN
                         ELSE portfolio_df[Len(portfolio_df)].Portfolio_Value,
         num_trades |-> Len(trades_df) \div 2,
         pnls |-> pnls,
         profits |-> SelectSeq(pnls, IsProfit),
         losses |-> SelectSeq(pnls, LAMBDA x : ~IsProfit(x))]
EvaluatePerformance(trades_df, portfolio_df) ==
    IF trades_df = <<>> \/ portfolio_df = <<>>
    THEN [status |-> "no_trades"]
    ELSE IF Len(trades_df) % 2 = 1
    THEN [status |-> "IndexError"]
    ELSE LET final_value == portfolio_df[Len(portfolio_df)].Portfolio_Value
             num_trades  == Len(trades_df) \div 2
             pnls        == PairPnls(trades_df)
             profits     == SelectSeq(pnls, IsProfit)
             losses      == SelectSeq(pnls, LAMBDA x : ~IsProfit(x))
         IN  [status |-> "evaluated",
              final_value |-> final_value,
              total_return_pct |->
                  RMul(RDiv(RSub(final_value, R(INITIAL_CAPITAL)),
                            R(INITIAL_CAPITAL)), R(100)),
              num_trades |-> num_trades,
              pnls |-> pnls,
              profits |-> profits,
              losses |-> losses,
              win_rate |-> IF num_trades > 0
                           THEN RMul(RDiv(R(Len(profits)), R(num_trades)), R(100))
                           ELSE R(0),
              avg_win |-> IF profits # <<>>
                          THEN RDiv(SumSeq(profits), R(Len(profits))) ELSE R(0),
              avg_loss |-> IF losses # <<>>
                           THEN RDiv(SumSeq(losses), R(Len(losses))) ELSE R(0)]

\* main: evaluate_performance(trades_log, portfolio_history)
CallEvaluatePerformance ==
    /\ returned /\ report = NoReport
    /\ report' = EvaluatePerformance(trades, portfolio_history)
    /\ UNCHANGED <<ndays, day, day_df, idx, cash, position, shares, trades,
                   portfolio_history, returned>>

InitCumIdle ==
    /\ min_df = <<>> /\ alt_min_df = <<>> /\ exp_cum = <<>> /\ alt_exp_cum = <<>>
    /\ cum_call = "none" /\ cum_window = 0 /\ joined = <<>>

InitDailyIdle ==
    /\ daily_df = <<>> /\ alt_daily_df = <<>> /\ chg_day = 0 /\ rvol_lookback = 0
    /\ daily_ind = <<>> /\ alt_daily_ind = <<>>
    /\ enriched = <<>> /\ alt_enriched = <<>>

NoCall == [fn |-> "none", window |-> 0, method |-> "", alpha |-> NaN, mode |-> ""]

InitIndIdle ==
    /\ ind_df = <<>> /\ alt_ind_df = <<>> /\ cut = 0
    /\ ind_call = NoCall /\ ind_out = <<>> /\ alt_ind_out = <<>>

NoHdCall == [fn |-> "none", lookback |-> 0, ema |-> FALSE, method |-> "", mode |-> ""]

InitHdIdle ==
    /\ df_daily = <<>> /\ volume_df = <<>> /\ hd_call = NoHdCall
    /\ hd_out = <<>> /\ hd_raised = ""

\* ---- config.py: the module globals --------------------------------------

\* a path is the sequence of its components; a component is a pair
\* <<name, suffix>>, the suffix being empty for a directory
Dir(name) == <<name, "">>
\* f"{STOCK_TICKER}_{INTRADAY_INTERVAL}.csv"
IntradayFileName(ticker, interval) == <<ticker, interval, ".csv">>
\* base / name, for a relative one-component name
PathJoin(base, component) == Append(base, component)

NoneArg == "<None>"

\* Path(arg) for the arguments given: a trailing slash is dropped, a leading
\* slash makes the root component
ToPath(arg) ==
    IF arg = "out" \/ arg = "out/" THEN <<Dir("out")>>
    ELSE IF arg = "/srv/market" THEN <<Dir("/"), Dir("srv"), Dir("market")>>
    ELSE <<Dir(arg)>>

\* _refresh_runtime_paths()
\* faulty variant of RefreshRuntimePaths: INTRADAY_FILEPATH not recomputed
RefreshRuntimePathsNoFile(c) ==
    [c EXCEPT !.FIGURE_PATH = PathJoin(c.FIGURE_BASE_PATH, Dir(c.STOCK_TICKER)),
              !.REPORT_PATH = PathJoin(c.REPORT_BASE_PATH, Dir(c.STOCK_TICKER))]
RefreshRuntimePaths(c) ==
    [c EXCEPT !.FIGURE_PATH = PathJoin(c.FIGURE_BASE_PATH, Dir(c.STOCK_TICKER)),
              !.REPORT_PATH = PathJoin(c.REPORT_BASE_PATH, Dir(c.STOCK_TICKER)),
              !.INTRADAY_FILEPATH =
                  PathJoin(c.DATA_PATH,
                           IntradayFileName(c.STOCK_TICKER, c.INTRADAY_INTERVAL))]

\* the module as imported: base values and the derived paths computed from them
ConfigAtImport ==
    RefreshRuntimePaths(
        [STOCK_TICKER |-> "RUM",
         INTRADAY_INTERVAL |-> "60min",
         DATA_PATH |-> <<Dir("/"), Dir("Users"), Dir("stock_data")>>,
         REPORT_BASE_PATH |-> <<Dir("/"), Dir("Users"), Dir("stock_report")>>,
         FIGURE_BASE_PATH |-> <<Dir("stock_image")>>,
         FIGURE_PATH |-> <<>>,
         REPORT_PATH |-> <<>>,
         INTRADAY_FILEPATH |-> <<>>])

NoCfgCall ==
    [via |-> "none", stock_ticker |-> NoneArg, data_path |-> NoneArg,
     report_base_path |-> NoneArg, figure_base_path |-> NoneArg]

InitConfig == config = ConfigAtImport /\ cfg_call = NoCfgCall

Init ==
    /\ InitBacktest /\ InitCumIdle /\ InitDailyIdle /\ InitIndIdle /\ InitHdIdle
    /\ InitConfig

Next ==
    \/ NextGroup /\ UNCHANGED <<cumvars, dailyvars, indvars, hdvars, cfgvars>>
    \/ EnterLong /\ UNCHANGED <<cumvars, dailyvars, indvars, hdvars, cfgvars>>
    \/ EnterShort /\ UNCHANGED <<cumvars, dailyvars, indvars, hdvars, cfgvars>>
    \/ NoEntry /\ UNCHANGED <<cumvars, dailyvars, indvars, hdvars, cfgvars>>
    \/ EndOfDay /\ UNCHANGED <<cumvars, dailyvars, indvars, hdvars, cfgvars>>
    \/ Return /\ UNCHANGED <<cumvars, dailyvars, indvars, hdvars, cfgvars>>
    \/ CallEvaluatePerformance /\ UNCHANGED <<cumvars, dailyvars, indvars, hdvars, cfgvars>>

Spec == Init /\ [][Next]_vars

---------------------------------------------------------------------------
(* expected_cumvol (rvoll_calculator.py) and build_expected_cumvol         *)
(* (backtest.py)                                                           *)

NSessions == 3        \* sessions of the intraday frame
NSlots    == 2        \* times of day
MaxWindow == 2        \* window_days given to build_expected_cumvol

Sessions == 1..NSessions
Slots    == 1..NSlots
NoBar    == -1        \* the session has no bar at that time of day

\* The volume profiles a session is drawn from (slot -> Volume or NoBar)
Profiles ==
    { [t \in Slots |-> 1],
      [t \in Slots |-> 3],
      [t \in Slots |-> t],
      [t \in Slots |-> IF t = 1 THEN NoBar ELSE 2],
      [t \in Slots |-> IF t = NSlots THEN NoBar ELSE 4],
      [t \in Slots |-> IF t = 1 THEN 0 ELSE 2] }

HasBar(prof, t) == prof[t] # NoBar
SameStamps(p, q) == \A t \in Slots : HasBar(p, t) <=> HasBar(q, t)

\* tmp.groupby("Date")["Volume"].cumsum(): running sum over the bars of one
\* session up to and including time t
RECURSIVE CumSum(_, _)
CumSum(prof, t) ==
    IF t = 0 THEN 0
    ELSE CumSum(prof, t - 1) + (IF HasBar(prof, t) THEN prof[t] ELSE 0)

\* tmp.pivot_table(index="Date", columns="Time", values="CumVolume"): a cell
\* without a bar is NaN
PivotCum(df) ==
    [d \in DOMAIN df |->
        [t \in Slots |-> IF HasBar(df[d], t) THEN R(CumSum(df[d], t)) ELSE NaN]]

RECURSIVE SumRows(_, _, _, _)
SumRows(mat, t, lo, hi) ==
    IF hi < lo THEN R(0)
    ELSE RAdd(SumRows(mat, t, lo, hi - 1),
              IF IsNaN(mat[hi][t]) THEN R(0) ELSE mat[hi][t])

\* .rolling(window=w, min_periods=1).mean(): per column, the mean of the
\* defined cells among the last w rows, NaN when there is none
\* faulty variant of RollingMean: a missing cell counts as a zero
RollingMeanZeroFill(mat, w) ==
    [d \in DOMAIN mat |->
        [t \in Slots |->
            LET lo == IF d - w + 1 < 1 THEN 1 ELSE d - w + 1
            IN  RDiv(SumRows(mat, t, lo, d), R(d - lo + 1))]]
RollingMean(mat, w) ==
    [d \in DOMAIN mat |->
        [t \in Slots |->
            LET lo == IF d - w + 1 < 1 THEN 1 ELSE d - w + 1
                n  == Cardinality({r \in lo..d : ~IsNaN(mat[r][t])})
            IN  IF n >= 1 THEN RDiv(SumRows(mat, t, lo, d), R(n)) ELSE NaN]]

\* .shift(1): row d takes the value of row d-1, the first row is NaN
\* faulty variant of Shift1: the shift left out
ShiftNone(mat) == mat
Shift1(mat) ==
    [d \in DOMAIN mat |-> IF d = 1 THEN [t \in Slots |-> NaN] ELSE mat[d - 1]]

\* The long form (stack() drops the NaN cells, the index is Date + Time) is
\* kept as the matrix: a (session, time) without a row reads as NaN.
ExpectedCumvol(df) ==
    Shift1(RollingMean(PivotCum(df), ROLLING_WINDOW_DAYS))

BuildExpectedCumvol(df, window_days) ==
    Shift1(RollingMean(PivotCum(df), window_days))

InitCum ==
    /\ min_df \in [Sessions -> Profiles]
    /\ alt_min_df \in [Sessions -> Profiles]
    /\ \A d \in Sessions : SameStamps(min_df[d], alt_min_df[d])
    /\ exp_cum = <<>>
    /\ alt_exp_cum = <<>>
    /\ cum_call = "none" /\ cum_window = 0 /\ joined = <<>>

\* exp_cum = expected_cumvol(minute_df), on each of the two inputs
CallExpectedCumvol ==
    /\ cum_call = "none"
    /\ exp_cum' = ExpectedCumvol(min_df)
    /\ alt_exp_cum' = ExpectedCumvol(alt_min_df)
    /\ cum_call' = "expected_cumvol"
    /\ cum_window' = ROLLING_WINDOW_DAYS
    /\ UNCHANGED <<min_df, alt_min_df, joined>>

\* exp_cumvol = build_expected_cumvol(min_df, window_days), on each input
CallBuildExpectedCumvol ==
    /\ cum_call = "none"
    /\ \E w \in 1..MaxWindow :
          /\ exp_cum' = BuildExpectedCumvol(min_df, w)
          /\ alt_exp_cum' = BuildExpectedCumvol(alt_min_df, w)
          /\ cum_window' = w
    /\ cum_call' = "build_expected_cumvol"
    /\ UNCHANGED <<min_df, alt_min_df, joined>>

\* intraday_rvol(min_df, exp_cum_df): the left join of the bars with the
\* expected curve on the timestamp, and CumVolume / Exp_CumVolume. The frame
\* is kept as the matrix; a (session, time) without a bar reads as NaN.
IntradayRvol(df, exp) ==
    [d \in DOMAIN df |->
        [t \in Slots |->
            LET cum == IF HasBar(df[d], t) THEN R(CumSum(df[d], t)) ELSE NaN
                e   == IF HasBar(df[d], t) THEN exp[d][t] ELSE NaN
            IN  [CumVolume |-> cum, Exp_CumVolume |-> e,
                 Intraday_RVOL_cum |-> RDiv(cum, e)]]]

\* minute_rvol = intraday_rvol(minute_df, exp_cum)
CallIntradayRvol ==
    /\ cum_call # "none" /\ joined = <<>>
    /\ joined' = IntradayRvol(min_df, exp_cum)
    /\ UNCHANGED <<min_df, alt_min_df, exp_cum, alt_exp_cum, cum_call,
                   cum_window>>

InitBacktestIdle ==
    /\ ndays = 0 /\ day = 0 /\ day_df = <<>> /\ idx = 1
    /\ cash = R(INITIAL_CAPITAL) /\ position = 0 /\ shares = 0
    /\ trades = <<>> /\ portfolio_history = <<>> /\ returned = FALSE
    /\ report = NoReport

NextCum ==
    \/ CallExpectedCumvol /\ UNCHANGED <<btvars, dailyvars, indvars, hdvars, cfgvars>>
    \/ CallBuildExpectedCumvol /\ UNCHANGED <<btvars, dailyvars, indvars, hdvars, cfgvars>>
    \/ CallIntradayRvol /\ UNCHANGED <<btvars, dailyvars, indvars, hdvars, cfgvars>>

InitCumSpec ==
    /\ InitBacktestIdle /\ InitCum /\ InitDailyIdle /\ InitIndIdle /\ InitHdIdle
    /\ InitConfig

SpecCum == InitCumSpec /\ [][NextCum]_vars

\* C2: the expected cumulative volume at (session D, time T) is the same for
\* two inputs with the same bar timestamps that agree on the volumes of all
\* sessions before D, whatever the volumes of session D and later sessions.
C2_NoLeakage ==
    cum_call # "none" =>
        \A D \in Sessions :
            (\A d \in 1..(D - 1) : min_df[d] = alt_min_df[d]) =>
                \A T \in Slots : exp_cum[D][T] = alt_exp_cum[D][T]

\* the two inputs agree before some session D >= 2 and differ on D, and the
\* curve of D is defined
C2_Witness ==
    /\ cum_call = "expected_cumvol"
    /\ \E D \in Sessions :
          /\ D >= 2
          /\ \A d \in 1..(D - 1) : min_df[d] = alt_min_df[d]
          /\ min_df[D] # alt_min_df[D]
          /\ \E T \in Slots : ~IsNaN(exp_cum[D][T])

\* the sessions among the `w` sessions before D that have a bar at time T
LookbackWithBar(df, D, T, w) ==
    { d \in 1..(D - 1) : d >= D - w /\ HasBar(df[d], T) }

\* the sum of the session-cumulative volumes at T over the sessions of S
RECURSIVE CumTotal(_, _, _)
CumTotal(df, T, S) ==
    IF S = {} THEN 0
    ELSE LET d == CHOOSE x \in S : TRUE
         IN  CumSum(df[d], T) + CumTotal(df, T, S \ {d})

\* C15: the expected cumulative volume at (session D, time T) is the mean of
\* the cumulative volumes at T of those of the `window` sessions before D that
\* have a bar at T; one such session is enough, sessions without the bar are
\* skipped, and without any such session (the first session) it is undefined.
C15_MeanOfPriorSessions ==
    cum_call # "none" =>
        \A D \in Sessions, T \in Slots :
            LET S == LookbackWithBar(min_df, D, T, cum_window)
            IN  IF S = {} THEN IsNaN(exp_cum[D][T])
                ELSE /\ ~IsNaN(exp_cum[D][T]) /\ ~IsInf(exp_cum[D][T])
                     /\ RMul(exp_cum[D][T], R(Cardinality(S)))
                            = R(CumTotal(min_df, T, S))

\* lookback 2: session 1 lacks the first slot, so session 3 takes session 2's
\* value alone there; at the last slot session 2's curve is session 1's and
\* session 3's is the plain average of sessions 1 and 2, which differ
C15_Witness ==
    /\ cum_call = "build_expected_cumvol" /\ cum_window = 2
    /\ ~HasBar(min_df[1], 1) /\ HasBar(min_df[2], 1)
    /\ exp_cum[3][1] = R(CumSum(min_df[2], 1))
    /\ exp_cum[2][NSlots] = R(CumSum(min_df[1], NSlots))
    /\ CumSum(min_df[1], NSlots) # CumSum(min_df[2], NSlots)
    /\ exp_cum[3][NSlots]
          = RDiv(R(CumSum(min_df[1], NSlots) + CumSum(min_df[2], NSlots)), R(2))

\* C16: Intraday_RVOL_cum of a bar is its session-cumulative volume divided by
\* the expected value at the same (session, time), and it is undefined, never
\* infinite, where the expected value is undefined or exactly zero.
C16_RatioUndefinedOnZero ==
    joined # <<>> =>
        \A d \in Sessions, t \in Slots :
            HasBar(min_df[d], t) =>
                LET row == joined[d][t]
                IN  /\ row.CumVolume = R(CumSum(min_df[d], t))
                    /\ row.Exp_CumVolume = exp_cum[d][t]
                    /\ ~IsInf(row.Intraday_RVOL_cum)
                    /\ IF IsNaN(exp_cum[d][t]) \/ exp_cum[d][t] = R(0)
                       THEN IsNaN(row.Intraday_RVOL_cum)
                       ELSE RMul(row.Intraday_RVOL_cum, exp_cum[d][t])
                                = row.CumVolume

\* what does hold: the ratio is the quotient, NaN on an undefined expected
\* value and on 0 / 0, infinite on a positive volume over a zero expectation
C16_RatioIsPlainQuotient ==
    joined # <<>> =>
        \A d \in Sessions, t \in Slots :
            HasBar(min_df[d], t) =>
                LET row == joined[d][t]
                    cum == R(CumSum(min_df[d], t))
                IN  /\ row.CumVolume = cum
                    /\ IF IsNaN(exp_cum[d][t]) THEN IsNaN(row.Intraday_RVOL_cum)
                       ELSE IF exp_cum[d][t] # R(0)
                       THEN RMul(row.Intraday_RVOL_cum, exp_cum[d][t]) = cum
                       ELSE IF cum = R(0) THEN IsNaN(row.Intraday_RVOL_cum)
                       ELSE row.Intraday_RVOL_cum = PosInf

---------------------------------------------------------------------------
(* technical_indicator.py: atr and rvol, on a frame given as a sequence of *)
(* bars [High, Low, Close, Volume]                                         *)

\* series.shift(1)
\* faulty variant of ShiftSeries: shift(-1), the next bar's value
ShiftSeriesBack(x) == [i \in DOMAIN x |-> IF i = Len(x) THEN NaN ELSE x[i + 1]]
ShiftSeries(x) == [i \in DOMAIN x |-> IF i = 1 THEN NaN ELSE x[i - 1]]

\* tr = pd.concat([(high-low).abs(), (high-prev_close).abs(),
\*                 (low-prev_close).abs()], axis=1).max(axis=1)
TrueRange(df) ==
    LET prev_close == ShiftSeries([i \in DOMAIN df |-> df[i].Close])
    IN  [i \in DOMAIN df |->
            RMax(RMax(RAbs(RSub(df[i].High, df[i].Low)),
                      RAbs(RSub(df[i].High, prev_close[i]))),
                 RAbs(RSub(df[i].Low, prev_close[i])))]

\* x.ewm(span=span, adjust=False).mean() at i, for a series without NaN:
\* y_1 = x_1, y_i = (1 - a) y_{i-1} + a x_i with a = 2 / (span + 1)
RECURSIVE EwmAt(_, _, _)
EwmAt(x, span, i) ==
    LET a == RDiv(R(2), R(span + 1))
    IN  IF i = 1 THEN x[1]
        ELSE RAdd(RMul(RSub(R(1), a), EwmAt(x, span, i - 1)), RMul(a, x[i]))

Ewm(x, span) == [i \in DOMAIN x |-> EwmAt(x, span, i)]

RECURSIVE SumSeries(_, _, _)
SumSeries(x, lo, hi) ==
    IF hi < lo THEN R(0) ELSE RAdd(SumSeries(x, lo, hi - 1), x[hi])

\* x.rolling(window).mean(): NaN until the window is full
Sma(x, window) ==
    [i \in DOMAIN x |->
        IF i < window THEN NaN
        ELSE RDiv(SumSeries(x, i - window + 1, i), R(window))]

\* atr(df, window, mode)
\* faulty variant of Atr: the backtest shift left out
AtrNoShift(df, window, mode) == Ewm(TrueRange(df), window)
Atr(df, window, mode) ==
    LET live == Ewm(TrueRange(df), window)
    IN  IF mode = "backtest" THEN ShiftSeries(live) ELSE live

\* avg_vol.replace(0, np.nan)
\* faulty variant of ReplaceZero: no replacement
ReplaceZeroNone(x) == x
ReplaceZero(x) == [i \in DOMAIN x |-> IF x[i] = R(0) THEN NaN ELSE x[i]]

\* rvol: avg_vol before the zero replacement, method in {"sma", "ewm",
\* "hybrid"}, shifted by one bar in backtest mode
\* faulty variant of RvolBaseline: the backtest shift left out
RvolBaselineNoShift(df, window, method, alpha, mode) ==
    LET vol == [i \in DOMAIN df |-> df[i].Volume]
        sma == Sma(vol, window)
        ewm == Ewm(vol, window)
    IN  IF method = "sma" THEN sma
        ELSE IF method = "ewm" THEN ewm
        ELSE [i \in DOMAIN df |->
                 RAdd(RMul(alpha, sma[i]), RMul(RSub(R(1), alpha), ewm[i]))]
RvolBaseline(df, window, method, alpha, mode) ==
    LET vol == [i \in DOMAIN df |-> df[i].Volume]
        sma == Sma(vol, window)
        ewm == Ewm(vol, window)
        avg == IF method = "sma" THEN sma
               ELSE IF method = "ewm" THEN ewm
               ELSE [i \in DOMAIN df |->
                        RAdd(RMul(alpha, sma[i]), RMul(RSub(R(1), alpha), ewm[i]))]
    IN  IF mode = "backtest" THEN ShiftSeries(avg) ELSE avg

\* rvol(df, window, method, alpha, mode)
Rvol(df, window, method, alpha, mode) ==
    LET avg_vol == ReplaceZero(RvolBaseline(df, window, method, alpha, mode))
    IN  [i \in DOMAIN df |-> RDiv(df[i].Volume, avg_vol[i])]

\* x.rolling(window).std() squared: the sample variance (ddof = 1) of the
\* last `window` values, NaN until the window is full and for window = 1
RECURSIVE SumSqDev(_, _, _, _)
SumSqDev(x, m, lo, hi) ==
    IF hi < lo THEN R(0)
    ELSE RAdd(SumSqDev(x, m, lo, hi - 1),
              RMul(RSub(x[hi], m), RSub(x[hi], m)))

RollingVar(x, window) ==
    LET mean == Sma(x, window)
    IN  [i \in DOMAIN x |->
            IF i < window THEN NaN
            ELSE RDiv(SumSqDev(x, mean[i], i - window + 1, i), R(window - 1))]

\* A quotient z = a / std is kept as sign(z) * z^2 = a * |a| / var, which is
\* exact in the rationals; z is NaN, +-inf, 0, positive or negative exactly
\* when this value is.
SignedSquare(a) == RMul(a, RAbs(a))

\* price_deviation(df, window, mode): (Close - mean) / std, as SignedSquare
PriceDeviation(df, window, mode) ==
    LET close == [i \in DOMAIN df |-> df[i].Close]
        mean0 == Sma(close, window)
        var0  == RollingVar(close, window)
        mean  == IF mode = "backtest" THEN ShiftSeries(mean0) ELSE mean0
        var   == IF mode = "backtest" THEN ShiftSeries(var0) ELSE var0
    IN  [i \in DOMAIN df |-> RDiv(SignedSquare(RSub(close[i], mean[i])), var[i])]

---------------------------------------------------------------------------
(* daily_indicators and attach_yesterday_daily_to_minutes                  *)
(* (rvoll_calculator.py)                                                   *)

NDays         == 4    \* daily bars of the daily frame
MaxRvolWindow == 2    \* Config.RVOL_LOOKBACK_DAYS ranges over 1..MaxRvolWindow
                      \* (10 in the source: its SMA warm-up alone is 10 bars)

DailyBar(h, l, c, v) == [High |-> R(h), Low |-> R(l), Close |-> R(c), Volume |-> R(v)]

DailyBars ==
    { DailyBar(11, 9, 10, 100),
      DailyBar(14, 10, 13, 300),
      DailyBar(9, 6, 7, 200) }

\* the frame daily_indicators returns; Y_* are shift(1) of the row above, ATR
\* and Hist_RVOL are the backtest-mode series of the same row
\* faulty variant of DailyIndicators: Y_ATR taken as the ATR column unshifted
DailyIndicatorsSingleShift(df, k, rvol_window) ==
    LET ATR       == Atr(df, ATR_LOOKBACK_DAYS, "backtest")
        Hist_RVOL == Rvol(df, rvol_window, "hybrid", RVOL_ALPHA, "backtest")
        Y_Close   == ShiftSeries([i \in DOMAIN df |-> df[i].Close])
    IN  [i \in DOMAIN df |->
            [Close       |-> df[i].Close,
             Volume      |-> df[i].Volume,
             ATR         |-> ATR[i],
             Hist_RVOL   |-> Hist_RVOL[i],
             Y_Close     |-> Y_Close[i],
             Y_ATR       |-> ATR[i],
             Y_ATR_Upper |-> RAdd(Y_Close[i], RMul(k, ATR[i])),
             Y_ATR_Lower |-> RSub(Y_Close[i], RMul(k, ATR[i]))]]
DailyIndicators(df, k, rvol_window) ==
    LET ATR       == Atr(df, ATR_LOOKBACK_DAYS, "backtest")
        Hist_RVOL == Rvol(df, rvol_window, "hybrid", RVOL_ALPHA, "backtest")
        Y_Close   == ShiftSeries([i \in DOMAIN df |-> df[i].Close])
        Y_ATR     == ShiftSeries(ATR)
    IN  [i \in DOMAIN df |->
            [Close       |-> df[i].Close,
             Volume      |-> df[i].Volume,
             ATR         |-> ATR[i],
             Hist_RVOL   |-> Hist_RVOL[i],
             Y_Close     |-> Y_Close[i],
             Y_ATR       |-> Y_ATR[i],
             Y_ATR_Upper |-> RAdd(Y_Close[i], RMul(k, Y_ATR[i])),
             Y_ATR_Lower |-> RSub(Y_Close[i], RMul(k, Y_ATR[i]))]]

\* ycols of the daily row whose date is the date of the intraday bar
YColsToday(row) ==
    [Y_Close |-> row.Y_Close, Y_ATR |-> row.Y_ATR, Y_ATR_Upper |-> row.Y_ATR_Upper,
     Y_ATR_Lower |-> row.Y_ATR_Lower, Hist_RVOL |-> row.Hist_RVOL]

NoDailyRow ==
    [Y_Close |-> NaN, Y_ATR |-> NaN, Y_ATR_Upper |-> NaN, Y_ATR_Lower |-> NaN,
     Hist_RVOL |-> NaN]

\* out.join(d[ycols], on="Date"): what the bars of each intraday session get;
\* a session without a daily row of its date gets NaN
AttachYesterdayDailyToMinutes(sessions, ind) ==
    [D \in sessions |-> IF D \in DOMAIN ind THEN YColsToday(ind[D]) ELSE NoDailyRow]

\* the intraday sessions: one per daily bar, and the session after the last
\* daily bar
IntradaySessions == 1..(NDays + 1)

InitDaily ==
    /\ daily_df \in [1..NDays -> DailyBars]
    /\ chg_day \in 1..NDays
    /\ \E b \in DailyBars \ {daily_df[chg_day]} :
          alt_daily_df = [daily_df EXCEPT ![chg_day] = b]
    /\ rvol_lookback \in 1..MaxRvolWindow
    /\ daily_ind = <<>> /\ alt_daily_ind = <<>>
    /\ enriched = <<>> /\ alt_enriched = <<>>

\* daily_ind = daily_indicators(daily_df, k=Config.ATR_BAND_MULTIPLIER)
CallDailyIndicators ==
    /\ daily_ind = <<>>
    /\ daily_ind' = DailyIndicators(daily_df, ATR_BAND_MULTIPLIER, rvol_lookback)
    /\ alt_daily_ind' = DailyIndicators(alt_daily_df, ATR_BAND_MULTIPLIER, rvol_lookback)
    /\ UNCHANGED <<daily_df, alt_daily_df, chg_day, rvol_lookback, enriched, alt_enriched>>

\* intraday_enriched = attach_yesterday_daily_to_minutes(intraday, daily_ind)
CallAttachYesterday ==
    /\ daily_ind # <<>> /\ enriched = <<>>
    /\ enriched' = AttachYesterdayDailyToMinutes(IntradaySessions, daily_ind)
    /\ alt_enriched' = AttachYesterdayDailyToMinutes(IntradaySessions, alt_daily_ind)
    /\ UNCHANGED <<daily_df, alt_daily_df, chg_day, rvol_lookback, daily_ind, alt_daily_ind>>

NextDaily ==
    \/ CallDailyIndicators /\ UNCHANGED <<btvars, cumvars, indvars, hdvars, cfgvars>>
    \/ CallAttachYesterday /\ UNCHANGED <<btvars, cumvars, indvars, hdvars, cfgvars>>

InitDailySpec ==
    /\ InitBacktestIdle /\ InitCumIdle /\ InitDaily /\ InitIndIdle /\ InitHdIdle
    /\ InitConfig

SpecDaily == InitDailySpec /\ [][NextDaily]_vars

\* C3: every value attached to the intraday bars of session D (Y_Close, Y_ATR,
\* Y_ATR_Upper, Y_ATR_Lower, Hist_RVOL) is the same for two daily frames that
\* differ only in the daily bar of session D.
C3_AttachedUsesPriorDaysOnly ==
    enriched # <<>> => enriched[chg_day] = alt_enriched[chg_day]

\* what does hold: the four Y_ columns attached to session D, and every
\* attached value of the sessions before D, do not read the daily bar of D
C3_YColumnsUsePriorDaysOnly ==
    enriched # <<>> =>
        /\ \A c \in {"Y_Close", "Y_ATR", "Y_ATR_Upper", "Y_ATR_Lower"} :
               enriched[chg_day][c] = alt_enriched[chg_day][c]
        /\ \A D \in 1..(chg_day - 1) : enriched[D] = alt_enriched[D]

---------------------------------------------------------------------------
(* Properties of run_backtest (specification Spec)                         *)

IsEntry(t) == t.Action \in {"BUY", "SELL_SHORT"}
IsExit(t)  == t.Action \in {"SELL_CLOSE", "BUY_COVER"}
RowsOf(d)  == SelectSeq(trades, LAMBDA t : t.Date[1] = d)
LastTrade  == trades[Len(trades)]

\* the signed cash amount of a ledger row, from its action, shares and price
RowAmount(t) ==
    IF t.Action \in {"SELL_SHORT", "SELL_CLOSE"}
    THEN RMul(R(t.Shares), t.Price)
    ELSE RNeg(RMul(R(t.Shares), t.Price))

RECURSIVE LedgerSum(_)
LedgerSum(ts) ==
    IF ts = <<>> THEN R(0)
    ELSE RAdd(LedgerSum(SubSeq(ts, 1, Len(ts) - 1)), RowAmount(ts[Len(ts)]))

\* C1: between two sessions (before the first, after each one, after the last)
\* and on the first bar of every session the position is Flat with 0 shares.
C1_FlatAtSessionEnd ==
    (~InGroup \/ idx = 1) => (position = 0 /\ shares = 0)

\* a session in which a short was opened has just been flattened, and it is
\* the last session of the input
C1_Witness ==
    /\ ~InGroup /\ day = ndays /\ day >= 2
    /\ Len(trades) >= 2
    /\ LastTrade.Action = "BUY_COVER" /\ LastTrade.Date[1] = day
    /\ position = 0 /\ shares = 0

\* C4: a session holds at most one entry row: while it runs the ledger holds
\* one row for it (an entry) exactly when a position is open, and none
\* otherwise; a finished session holds no row or an entry followed by an exit.
C4_OneEntryPerSession ==
    \A d \in 1..day :
        LET rs == RowsOf(d)
        IN  IF d = day /\ InGroup
            THEN /\ Len(rs) = (IF position = 0 THEN 0 ELSE 1)
                 /\ (Len(rs) = 1 => IsEntry(rs[1]))
            ELSE /\ Len(rs) \in {0, 2}
                 /\ (Len(rs) = 2 => IsEntry(rs[1]) /\ IsExit(rs[2]))

\* a position is open, the bar just processed satisfied an entry condition
\* again, and the session still has its single entry row from an earlier bar
C4_Witness ==
    /\ InGroup /\ idx > 2 /\ position # 0
    /\ LET row == day_df[idx - 1]
       IN  /\ RGt(row.Intraday_RVOL_cum, RVOL_ENTRY_THRESHOLD)
           /\ \/ RGt(row.Close, row.Y_ATR_Upper)
              \/ RLt(row.Close, row.Y_ATR_Lower)
    /\ Len(RowsOf(day)) = 1
    /\ RowsOf(day)[1].Date[2] < idx - 1

\* a step that evaluates the row at idx
BarStep == AtRow /\ idx' = idx + 1 /\ day' = day

SameTrade(t, stamp, action, sh, price) ==
    /\ t.Date = stamp /\ t.Action = action /\ t.Shares = sh /\ t.Price = price

\* C5: from Flat, a bar with RVOL > 3/2 and Close > upper band (both strict)
\* opens a long of TRADE_SHARES, debits shares x Close and appends one BUY
\* row with the bar's timestamp, shares and Close; a flat bar that fails either
\* comparison opens no long.
C5_LongEntry ==
    [][ (BarStep /\ position = 0) =>
          LET row == day_df[idx]
              rv  == row.Intraday_RVOL_cum
              up  == row.Y_ATR_Upper
              strict == /\ ~IsNaN(rv) /\ 2 * rv[1] > 3 * rv[2]
                        /\ ~IsNaN(up) /\ row.Close[1] * up[2] > up[1] * row.Close[2]
          IN  IF strict
              THEN /\ position' = 1
                   /\ shares' = TRADE_SHARES
                   /\ cash' = RSub(cash, RMul(R(TRADE_SHARES), row.Close))
                   /\ Len(trades') = Len(trades) + 1
                   /\ SubSeq(trades', 1, Len(trades)) = trades
                   /\ SameTrade(trades'[Len(trades')], <<day, idx>>, "BUY",
                                TRADE_SHARES, row.Close)
              ELSE /\ position' # 1
                   /\ \A k \in (Len(trades) + 1)..Len(trades') :
                          trades'[k].Action # "BUY"
      ]_vars

\* the second bar of a session opened a long after a first bar that sat
\* exactly on the threshold and opened nothing
C5_Witness ==
    /\ InGroup /\ idx = 3 /\ position = 1 /\ shares = TRADE_SHARES
    /\ day_df[1].Intraday_RVOL_cum = RVOL_ENTRY_THRESHOLD
    /\ RGt(day_df[1].Close, day_df[1].Y_ATR_Upper)
    /\ LastTrade.Action = "BUY" /\ LastTrade.Date = <<day, 2>>

\* C6: from Flat, a bar on which the long condition fails and RVOL > 3/2 and
\* Close < lower band (both strict) opens a short of TRADE_SHARES, credits
\* shares x Close and appends one SELL_SHORT row with the bar's timestamp,
\* shares and Close.
C6_ShortEntry ==
    [][ (BarStep /\ position = 0) =>
          LET row == day_df[idx]
              rv  == row.Intraday_RVOL_cum
              up  == row.Y_ATR_Upper
              lo  == row.Y_ATR_Lower
              hot == ~IsNaN(rv) /\ 2 * rv[1] > 3 * rv[2]
              long  == hot /\ ~IsNaN(up) /\ row.Close[1] * up[2] > up[1] * row.Close[2]
              short == hot /\ ~IsNaN(lo) /\ row.Close[1] * lo[2] < lo[1] * row.Close[2]
          IN  (~long /\ short) =>
                   /\ position' = -1
                   /\ shares' = TRADE_SHARES
                   /\ cash' = RAdd(cash, RMul(R(TRADE_SHARES), row.Close))
                   /\ Len(trades') = Len(trades) + 1
                   /\ SubSeq(trades', 1, Len(trades)) = trades
                   /\ SameTrade(trades'[Len(trades')], <<day, idx>>, "SELL_SHORT",
                                TRADE_SHARES, row.Close)
      ]_vars

\* a short has just been opened on the bar before idx
C6_Witness ==
    /\ InGroup /\ idx > 1 /\ position = -1 /\ shares = TRADE_SHARES
    /\ LastTrade.Action = "SELL_SHORT" /\ LastTrade.Date = <<day, idx - 1>>
    /\ RLt(day_df[idx - 1].Close, day_df[idx - 1].Y_ATR_Lower)
    /\ cash = RAdd(R(INITIAL_CAPITAL), RMul(R(TRADE_SHARES), day_df[idx - 1].Close))

\* the step that leaves a session whose rows are exhausted
SessionEndStep == InGroup /\ idx = Len(day_df) + 1 /\ day_df' = <<>>

\* C7: a position still open when the rows of a session are exhausted is
\* closed at the Close and timestamp of the session's last bar (a long credits
\* shares x Close and appends SELL_CLOSE, a short debits it and appends
\* BUY_COVER), the state returns to Flat, and the run never returns with an
\* open position.
C7_ForcedClose ==
    /\ [][ SessionEndStep =>
             LET last == day_df[Len(day_df)]
                 amt  == RMul(R(shares), last.Close)
             IN  /\ position = 1 =>
                        /\ cash' = RAdd(cash, amt)
                        /\ trades' = Append(trades, TradeRow(<<day, Len(day_df)>>,
                               "SELL_CLOSE", shares, last.Close, NaN, NaN))
                 /\ position = -1 =>
                        /\ cash' = RSub(cash, amt)
                        /\ trades' = Append(trades, TradeRow(<<day, Len(day_df)>>,
                               "BUY_COVER", shares, last.Close, NaN, NaN))
                 /\ position' = 0 /\ shares' = 0
         ]_vars
    /\ [](returned => (position = 0 /\ shares = 0 /\ ~InGroup))

\* the run has returned after the last session closed a long that had been
\* opened on an earlier bar, at another price
C7_Witness ==
    /\ returned /\ Len(trades) >= 2
    /\ LastTrade.Action = "SELL_CLOSE" /\ LastTrade.Date[1] = ndays
    /\ trades[Len(trades) - 1].Action = "BUY"
    /\ trades[Len(trades) - 1].Date[2] < LastTrade.Date[2]
    /\ trades[Len(trades) - 1].Price # LastTrade.Price

\* C8: the returned ledger has even length; each row at an even 0-based
\* position is an entry, followed by its exit (BUY by SELL_CLOSE, SELL_SHORT by
\* BUY_COVER) with the same shares and the same session date.
C8_LedgerAlternates ==
    returned =>
        /\ Len(trades) % 2 = 0
        /\ \A i \in 0..(Len(trades) - 1) :
               i % 2 = 0 =>
                   /\ i + 2 <= Len(trades)        \* iloc[i+1] exists
                   /\ LET entry == trades[i + 1]
                          exit  == trades[i + 2]
                      IN  /\ IsEntry(entry)
                          /\ entry.Action = "BUY" => exit.Action = "SELL_CLOSE"
                          /\ entry.Action = "SELL_SHORT" => exit.Action = "BUY_COVER"
                          /\ exit.Shares = entry.Shares
                          /\ exit.Date[1] = entry.Date[1]

\* a returned ledger with a long pair and a short pair
C8_Witness ==
    /\ returned /\ Len(trades) = 4
    /\ trades[1].Action = "BUY" /\ trades[3].Action = "SELL_SHORT"

\* C9: cash is the initial capital plus the signed amounts of the ledger rows
\* (BUY and BUY_COVER debit shares x price, SELL_SHORT and SELL_CLOSE credit
\* it): so cash after an exit is cash before the entry -/+ shares x entry price
\* +/- shares x exit price, and a step that appends no row leaves cash alone.
C9_CashConservation ==
    cash = RAdd(R(INITIAL_CAPITAL), LedgerSum(trades))

\* a long pair and a short pair have been closed, each at a price other than
\* its entry price
C9_Witness ==
    /\ ~InGroup /\ Len(trades) = 4
    /\ trades[1].Action = "SELL_SHORT" /\ trades[1].Price # trades[2].Price
    /\ trades[3].Action = "BUY" /\ trades[3].Price # trades[4].Price
    /\ cash # R(INITIAL_CAPITAL)

\* the ledger rows of the sessions up to d
RowsUpTo(d) == SelectSeq(trades, LAMBDA t : t.Date[1] <= d)

\* C10: one snapshot per finished session, in session order; the snapshot of
\* session d is the cash after that session's forced close (the position is
\* Flat then), and the returned history has one row per session date of the
\* input, traded or not.
C10_SnapshotPerSession ==
    /\ Len(portfolio_history) = (IF InGroup THEN day - 1 ELSE day)
    /\ \A d \in 1..Len(portfolio_history) :
           /\ portfolio_history[d].Date = d
           /\ portfolio_history[d].Portfolio_Value =
                  RAdd(R(INITIAL_CAPITAL), LedgerSum(RowsUpTo(d)))
           /\ Len(RowsUpTo(d)) % 2 = 0
    /\ (~InGroup /\ day >= 1) =>
           /\ position = 0
           /\ portfolio_history[day].Portfolio_Value = cash
    /\ returned => Len(portfolio_history) = ndays

\* the run returned two snapshots, the first of a session without any trade,
\* the second of a session whose pair changed the cash
C10_Witness ==
    /\ returned /\ ndays = 2 /\ Len(portfolio_history) = 2
    /\ RowsOf(1) = <<>> /\ Len(RowsOf(2)) = 2
    /\ portfolio_history[1].Portfolio_Value = R(INITIAL_CAPITAL)
    /\ portfolio_history[2].Portfolio_Value # R(INITIAL_CAPITAL)


\* C11: every ledger row, whatever its action, carries its timestamp, action,
\* shares, price and the cash delta of the trade (Cost or Credit).
C11_RowsCarryCashDelta ==
    \A i \in 1..Len(trades) :
        LET t == trades[i]
        IN  /\ t.Action \in {"BUY", "SELL_SHORT", "SELL_CLOSE", "BUY_COVER"}
            /\ t.Date[1] \in 1..day
            /\ t.Shares = TRADE_SHARES
            /\ ~IsNaN(t.Price)
            /\ (~IsNaN(t.Cost) \/ ~IsNaN(t.Credit))

\* what does hold: the entry rows carry the delta, the exit rows carry none
C11_OnlyEntriesCarryCashDelta ==
    \A i \in 1..Len(trades) :
        LET t == trades[i]
        IN  /\ t.Action \in {"BUY", "SELL_SHORT", "SELL_CLOSE", "BUY_COVER"}
            /\ t.Shares = TRADE_SHARES /\ ~IsNaN(t.Price)
            /\ t.Action = "BUY" =>
                   t.Cost = RMul(R(t.Shares), t.Price) /\ IsNaN(t.Credit)
            /\ t.Action = "SELL_SHORT" =>
                   t.Credit = RMul(R(t.Shares), t.Price) /\ IsNaN(t.Cost)
            /\ IsExit(t) => IsNaN(t.Cost) /\ IsNaN(t.Credit)


---------------------------------------------------------------------------
(* technical_indicator: atr, rvol and price_deviation called on a bar     *)
(* series; each call is made on ind_df and on alt_ind_df, which agrees    *)
(* with ind_df on the bars 1..cut.                                         *)

NBars        == 4
MaxIndWindow == 3

IndBars == { DailyBar(11, 9, 10, 100), DailyBar(14, 10, 13, 400),
             DailyBar(10, 10, 10, 0) }

Modes   == {"backtest", "live"}
Methods == {"sma", "ewm", "hybrid"}
Alphas  == { R(0), RVOL_ALPHA, R(1) }

\* series that agree with df on 1..c: df cut after bar c, or df with bar
\* c + 1 replaced (any change of later bars is a chain of such replacements,
\* each taken with its own c)
AltSeries(df, c) ==
    { SubSeq(df, 1, c) } \cup
    { [df EXCEPT ![j] = b] : j \in {c + 1} \cap DOMAIN df, b \in IndBars }

InitInd ==
    /\ ind_df \in [1..NBars -> IndBars]
    /\ cut \in 1..NBars
    /\ alt_ind_df \in AltSeries(ind_df, cut)
    /\ ind_call = NoCall /\ ind_out = <<>> /\ alt_ind_out = <<>>

CallAtr ==
    /\ ind_call.fn = "none"
    /\ \E window \in 1..MaxIndWindow, mode \in Modes :
          /\ ind_call' = [fn |-> "atr", window |-> window, method |-> "",
                          alpha |-> NaN, mode |-> mode]
          /\ ind_out' = Atr(ind_df, window, mode)
          /\ alt_ind_out' = Atr(alt_ind_df, window, mode)
    /\ UNCHANGED <<ind_df, alt_ind_df, cut>>
    /\ UNCHANGED <<btvars, cumvars, dailyvars, hdvars, cfgvars>>

CallRvol ==
    /\ ind_call.fn = "none"
    /\ \E window \in 1..MaxIndWindow, method \in Methods,
          alpha \in Alphas, mode \in Modes :
          /\ method = "hybrid" \/ alpha = RVOL_ALPHA
          /\ ind_call' = [fn |-> "rvol", window |-> window, method |-> method,
                          alpha |-> alpha, mode |-> mode]
          /\ ind_out' = Rvol(ind_df, window, method, alpha, mode)
          /\ alt_ind_out' = Rvol(alt_ind_df, window, method, alpha, mode)
    /\ UNCHANGED <<ind_df, alt_ind_df, cut>>
    /\ UNCHANGED <<btvars, cumvars, dailyvars, hdvars, cfgvars>>

CallPriceDeviation ==
    /\ ind_call.fn = "none"
    /\ \E window \in 1..MaxIndWindow, mode \in Modes :
          /\ ind_call' = [fn |-> "price_deviation", window |-> window,
                          method |-> "", alpha |-> NaN, mode |-> mode]
          /\ ind_out' = PriceDeviation(ind_df, window, mode)
          /\ alt_ind_out' = PriceDeviation(alt_ind_df, window, mode)
    /\ UNCHANGED <<ind_df, alt_ind_df, cut>>
    /\ UNCHANGED <<btvars, cumvars, dailyvars, hdvars, cfgvars>>

NextInd == CallAtr \/ CallRvol \/ CallPriceDeviation

InitIndSpec ==
    /\ InitBacktestIdle /\ InitCumIdle /\ InitDailyIdle /\ InitInd /\ InitHdIdle
    /\ InitConfig

SpecInd == InitIndSpec /\ [][NextInd]_vars


---------------------------------------------------------------------------
(* Claims about technical_indicator, stated over SpecInd                   *)

Called(fn) == ind_call.fn = fn

\* C12: atr, rvol and price_deviation in backtest mode give the same value at
\* every bar T for two series that agree on the bars up to T: changing or
\* removing later bars never changes the value at T.
C12_BacktestCausal ==
    (~Called("none") /\ ind_call.mode = "backtest")
        => \A t \in 1..cut : ind_out[t] = alt_ind_out[t]

\* a later bar was replaced, the value right after the cut moved, and the
\* value at the cut is defined
C12_Witness ==
    /\ Called("rvol") /\ ind_call.mode = "backtest"
    /\ cut < NBars /\ Len(alt_ind_df) = NBars
    /\ ~IsNaN(ind_out[cut])
    /\ ind_out[cut + 1] # alt_ind_out[cut + 1]

\* True Range as the recursion of C13 words it
WilderTR(df, t) ==
    IF t = 1 THEN RSub(df[1].High, df[1].Low)
    ELSE RMax(RMax(RSub(df[t].High, df[t].Low),
                   RAbs(RSub(df[t].High, df[t - 1].Close))),
              RAbs(RSub(df[t].Low, df[t - 1].Close)))

\* the recursion y_1 = TR_1, y_t = y_{t-1} + a (TR_t - y_{t-1})
Recursion(df, y, a) ==
    /\ y[1] = WilderTR(df, 1)
    /\ \A t \in 2..Len(df) :
          y[t] = RAdd(y[t - 1], RMul(a, RSub(WilderTR(df, t), y[t - 1])))

\* C13: atr in live mode satisfies the Wilder recursion with smoothing factor
\* 1 / window: ATR_0 = TR_0, ATR_t = ATR_{t-1} + (1/window)(TR_t - ATR_{t-1}).
C13_WilderRecursion ==
    (Called("atr") /\ ind_call.mode = "live")
        => Recursion(ind_df, ind_out, RDiv(R(1), R(ind_call.window)))

\* what does hold: the recursion with smoothing factor 2 / (window + 1)
C13_SpanRecursion ==
    (Called("atr") /\ ind_call.mode = "live")
        => Recursion(ind_df, ind_out, RDiv(R(2), R(ind_call.window + 1)))

\* C14: the backtest-mode ATR at bar t is the live-mode ATR at bar t - 1, it
\* is undefined at the first bar, and it does not depend on bar t's own
\* high, low or close.
C14_BacktestIsLiveShifted ==
    (Called("atr") /\ ind_call.mode = "backtest")
        => /\ IsNaN(ind_out[1])
           /\ \A t \in 2..Len(ind_df) :
                 ind_out[t] = Atr(ind_df, ind_call.window, "live")[t - 1]
           /\ \A t \in 1..(cut + 1) :
                 t \in DOMAIN alt_ind_df => ind_out[t] = alt_ind_out[t]

\* bar cut + 1 was replaced by a bar with other prices, and the ATR attributed
\* to it is a defined value
C14_Witness ==
    /\ Called("atr") /\ ind_call.mode = "backtest" /\ ind_call.window >= 2
    /\ cut + 1 \in DOMAIN alt_ind_df
    /\ alt_ind_df[cut + 1].High # ind_df[cut + 1].High
    /\ alt_ind_df[cut + 1].Close # ind_df[cut + 1].Close
    /\ ~IsNaN(ind_out[cut + 1])


\* the baseline of the rvol call made, before the zero replacement
CallBaseline ==
    RvolBaseline(ind_df, ind_call.window, ind_call.method, ind_call.alpha,
                 ind_call.mode)

\* C17: rvol never returns an infinite value: for every method and mode, at
\* every bar where the average-volume baseline (after the backtest shift) is
\* exactly zero, the returned RVOL is undefined.
C17_ZeroBaselineUndefined ==
    Called("rvol") =>
        \A t \in DOMAIN ind_df :
            /\ ~IsInf(ind_out[t])
            /\ CallBaseline[t] = R(0) => IsNaN(ind_out[t])

\* a bar with a positive volume over a baseline of exactly zero
C17_Witness ==
    /\ Called("rvol")
    /\ \E t \in DOMAIN ind_df :
          /\ CallBaseline[t] = R(0)
          /\ RGt(ind_df[t].Volume, R(0))
          /\ IsNaN(ind_out[t])

\* C18: at every bar, warm-up bars included, rvol(method='hybrid', alpha=0)
\* returns what rvol(method='ewm') returns and rvol(method='hybrid', alpha=1)
\* what rvol(method='sma') returns; undefined equals undefined only.
C18_HybridEndpoints ==
    (Called("rvol") /\ ind_call.method = "hybrid") =>
        /\ ind_call.alpha = R(0) =>
              ind_out = Rvol(ind_df, ind_call.window, "ewm", RVOL_ALPHA,
                             ind_call.mode)
        /\ ind_call.alpha = R(1) =>
              ind_out = Rvol(ind_df, ind_call.window, "sma", RVOL_ALPHA,
                             ind_call.mode)

\* what does hold: alpha = 1 is the SMA baseline at every bar, alpha = 0 is
\* the EWM baseline at the bars where the SMA is defined and undefined before
C18_HybridEndpointsAfterWarmUp ==
    (Called("rvol") /\ ind_call.method = "hybrid") =>
        LET w    == ind_call.window
            warm == IF ind_call.mode = "backtest" THEN w ELSE w - 1
            ewm  == Rvol(ind_df, w, "ewm", RVOL_ALPHA, ind_call.mode)
            sma  == Rvol(ind_df, w, "sma", RVOL_ALPHA, ind_call.mode)
        IN  /\ ind_call.alpha = R(1) => ind_out = sma
            /\ ind_call.alpha = R(0) =>
                  \A t \in DOMAIN ind_df :
                      IF t <= warm THEN IsNaN(ind_out[t])
                      ELSE ind_out[t] = ewm[t]

\* C19: price_deviation is undefined, neither infinite nor an error, at every
\* bar with fewer than `window` closes available to the rolling statistics
\* and at every bar whose rolling standard deviation (the denominator) is 0.
C19_UndefinedOnZeroStd ==
    Called("price_deviation") =>
        LET w     == ind_call.window
            close == [i \in DOMAIN ind_df |-> ind_df[i].Close]
            var0  == RollingVar(close, w)
            var   == IF ind_call.mode = "backtest" THEN ShiftSeries(var0)
                     ELSE var0
            avail == [t \in DOMAIN ind_df |->
                         IF ind_call.mode = "backtest" THEN t - 1 ELSE t]
        IN  \A t \in DOMAIN ind_df :
                /\ ~IsInf(ind_out[t])
                /\ avail[t] < w => IsNaN(ind_out[t])
                /\ var[t] = R(0) => IsNaN(ind_out[t])

\* what does hold: undefined before `window` closes; on a zero standard
\* deviation undefined in live mode, and in backtest mode undefined only
\* when the close equals the mean, infinite otherwise
C19_UndefinedBeforeWindow ==
    Called("price_deviation") =>
        LET w     == ind_call.window
            close == [i \in DOMAIN ind_df |-> ind_df[i].Close]
            var0  == RollingVar(close, w)
            mean0 == Sma(close, w)
        IN  \A t \in DOMAIN ind_df :
                IF ind_call.mode = "live"
                THEN /\ ~IsInf(ind_out[t])
                     /\ (t < w \/ var0[t] = R(0)) => IsNaN(ind_out[t])
                ELSE /\ t - 1 < w => IsNaN(ind_out[t])
                     /\ (t > 1 /\ var0[t - 1] = R(0)) =>
                           IF close[t] = mean0[t - 1] THEN IsNaN(ind_out[t])
                           ELSE IsInf(ind_out[t])

\* the sum of the volumes of the bars lo..hi
RECURSIVE VolumeSum(_, _, _)
VolumeSum(df, lo, hi) ==
    IF hi < lo THEN R(0) ELSE RAdd(VolumeSum(df, lo, hi - 1), df[hi].Volume)

\* C20: rvol with method 'sma' in backtest mode returns, at every bar with
\* `window` bars before it, the bar's volume divided by the simple mean of
\* the volumes of those `window` bars (its own volume not among them), and
\* is undefined at the earlier bars.
C20_SmaBacktest ==
    (Called("rvol") /\ ind_call.method = "sma" /\ ind_call.mode = "backtest") =>
        LET w == ind_call.window
        IN  \A t \in DOMAIN ind_df :
                IF t <= w THEN IsNaN(ind_out[t])
                ELSE LET sum == VolumeSum(ind_df, t - w, t - 1)
                     IN  IF sum = R(0) THEN IsNaN(ind_out[t])
                         ELSE /\ ~IsNaN(ind_out[t])
                              /\ RMul(ind_out[t], sum)
                                    = RMul(ind_df[t].Volume, R(w))

\* volumes [100, 100, 100, 400], window 3: RVOL 4 on the fourth bar
C20_Witness ==
    /\ Called("rvol") /\ ind_call.method = "sma" /\ ind_call.mode = "backtest"
    /\ ind_call.window = 3
    /\ \A t \in 1..3 : ind_df[t].Volume = R(100)
    /\ ind_df[4].Volume = R(400)
    /\ ind_out[4] = R(4)


---------------------------------------------------------------------------
(* Claims about run_backtest on undefined indicator values, over Spec      *)

\* the row cannot be evaluated: RVOL undefined, or both bands undefined
Unevaluable(row) ==
    \/ IsNaN(row.Intraday_RVOL_cum)
    \/ IsNaN(row.Y_ATR_Upper) /\ IsNaN(row.Y_ATR_Lower)

\* C21: a bar with undefined Intraday_RVOL_cum causes no entry, a bar with
\* undefined Y_ATR_Upper no long entry, a bar with undefined Y_ATR_Lower no
\* short entry; a session all of whose bars are undefined in RVOL or in the
\* bands records no trade.
C21_UndefinedNeverEnters ==
    /\ [][ BarStep =>
             LET row == day_df[idx]
             IN  /\ IsNaN(row.Intraday_RVOL_cum) =>
                        (trades' = trades /\ position' = position /\ cash' = cash)
                 /\ IsNaN(row.Y_ATR_Upper) =>
                        (position' = 1 => position = 1) /\
                        (\A k \in (Len(trades) + 1)..Len(trades') :
                             trades'[k].Action # "BUY")
                 /\ IsNaN(row.Y_ATR_Lower) =>
                        (position' = -1 => position = -1) /\
                        (\A k \in (Len(trades) + 1)..Len(trades') :
                             trades'[k].Action # "SELL_SHORT")
         ]_vars
    /\ [][ (SessionEndStep /\ \A i \in DOMAIN day_df : Unevaluable(day_df[i])) =>
             /\ trades' = trades /\ cash' = cash
             /\ \A k \in DOMAIN trades' : trades'[k].Date[1] # day
         ]_vars

\* all bars of the second session have been read: RVOL undefined on the
\* first, the bands undefined on the second, nothing recorded for it, after a
\* first session that traded
C21_Witness ==
    /\ InGroup /\ day = 2 /\ Len(day_df) = 2 /\ idx = 3
    /\ IsNaN(day_df[1].Intraday_RVOL_cum)
    /\ IsNaN(day_df[2].Y_ATR_Upper) /\ IsNaN(day_df[2].Y_ATR_Lower)
    /\ position = 0 /\ RowsOf(2) = <<>> /\ Len(RowsOf(1)) = 2


---------------------------------------------------------------------------
(* Claims about evaluate_performance on the output of run_backtest         *)

Evaluated == report.status = "evaluated"

\* the pnl of the j-th ledger pair, from the prices and shares of its rows
LedgerPnl(j) ==
    LET entry == trades[2 * j - 1]
        exit  == trades[2 * j]
        diff  == IF entry.Action = "BUY" THEN RSub(exit.Price, entry.Price)
                 ELSE RSub(entry.Price, exit.Price)
    IN  <<diff[1] * entry.Shares, diff[2]>>

Pairs    == 1..(Len(trades) \div 2)
WinPairs == { j \in Pairs : LedgerPnl(j)[1] > 0 }

RECURSIVE PnlTotal(_)
PnlTotal(S) ==
    IF S = {} THEN R(0)
    ELSE LET j == CHOOSE x \in S : TRUE
         IN  RAdd(LedgerPnl(j), PnlTotal(S \ {j}))

\* C22: given an empty trade ledger, evaluate_performance reports the
\* no-trades state and returns, computing nothing from the ledger or the
\* portfolio history, whatever the history contains.
C22_EmptyLedgerNoTrades ==
    (report # NoReport /\ trades = <<>>) =>
        (report.status = "no_trades" /\ DOMAIN report = {"status"})

\* evaluated after a run of two sessions without a trade: the history holds
\* two snapshots, the ledger none
C22_Witness ==
    /\ report.status = "no_trades"
    /\ trades = <<>> /\ Len(portfolio_history) = 2

\* C23: for a ledger of run_backtest, each consecutive (entry, exit) pair has
\* pnl (exit - entry) x shares after BUY and (entry - exit) x shares after
\* SELL_SHORT; a pair is a win iff pnl > 0, else a loss; wins + losses =
\* pairs = ledger length / 2; win rate = wins / pairs (reported in percent);
\* average win / loss = mean of the bucket, 0 when it is empty.
C23_PairStatistics ==
    /\ (report # NoReport /\ trades # <<>>) => Evaluated
    /\ Evaluated =>
          LET wins   == WinPairs
              losers == Pairs \ WinPairs
          IN  /\ Len(trades) % 2 = 0
              /\ report.num_trades = Len(trades) \div 2
              /\ Len(report.pnls) = report.num_trades
              /\ \A j \in Pairs : report.pnls[j] = RNorm(LedgerPnl(j)[1], LedgerPnl(j)[2])
              /\ Len(report.profits) = Cardinality(wins)
              /\ Len(report.losses) = Cardinality(losers)
              /\ Len(report.profits) + Len(report.losses) = report.num_trades
              /\ RMul(report.win_rate, R(report.num_trades))
                     = R(100 * Cardinality(wins))
              /\ IF wins = {} THEN report.avg_win = R(0)
                 ELSE RMul(report.avg_win, R(Cardinality(wins))) = PnlTotal(wins)
              /\ IF losers = {} THEN report.avg_loss = R(0)
                 ELSE RMul(report.avg_loss, R(Cardinality(losers)))
                          = PnlTotal(losers)

\* a winning long pair followed by a losing short pair
C23_Witness ==
    /\ Evaluated /\ Len(trades) = 4
    /\ trades[1].Action = "BUY" /\ trades[3].Action = "SELL_SHORT"
    /\ Len(report.profits) = 1 /\ Len(report.losses) = 1
    /\ RGt(report.avg_win, R(0)) /\ RLt(report.avg_loss, R(0))
    /\ report.win_rate = R(50)

\* C27: the Portfolio_Value recorded after every session is INITIAL_CAPITAL
\* plus the sum of the pair pnls evaluate_performance computes for the pairs
\* closed up to that session; final value - INITIAL_CAPITAL = sum(profits) +
\* sum(losses).
C27_ValueIsCapitalPlusPnl ==
    Evaluated =>
        /\ \A d \in 1..Len(portfolio_history) :
               portfolio_history[d].Portfolio_Value =
                   RAdd(R(INITIAL_CAPITAL),
                        SumSeq(SubSeq(report.pnls, 1, Len(RowsUpTo(d)) \div 2)))
        /\ RSub(report.final_value, R(INITIAL_CAPITAL))
               = RAdd(SumSeq(report.profits), SumSeq(report.losses))
        /\ RMul(report.total_return_pct, R(INITIAL_CAPITAL))
               = RMul(RAdd(SumSeq(report.profits), SumSeq(report.losses)), R(100))

\* two sessions, each closing a pair with a pnl other than zero
C27_Witness ==
    /\ Evaluated /\ Len(portfolio_history) = 2 /\ Len(report.pnls) = 2
    /\ Len(RowsOf(1)) = 2 /\ Len(RowsOf(2)) = 2
    /\ report.pnls[1] # R(0) /\ report.pnls[2] # R(0)
    /\ portfolio_history[1].Portfolio_Value # R(INITIAL_CAPITAL)
    /\ portfolio_history[2].Portfolio_Value # portfolio_history[1].Portfolio_Value

\* the cash with which the running session started
CashBeforeSession ==
    IF portfolio_history = <<>> THEN R(INITIAL_CAPITAL)
    ELSE portfolio_history[Len(portfolio_history)].Portfolio_Value

\* C28: an entry on the final bar of a session is followed by the forced exit
\* row with the same timestamp and the same price; the cash after the session
\* equals the cash before it, the pair's pnl is 0, and evaluate_performance
\* counts it as a loss.
C28_EntryOnFinalBar ==
    /\ [][ (SessionEndStep /\ position # 0
              /\ LastTrade.Date = <<day, Len(day_df)>>) =>
             /\ Len(trades') = Len(trades) + 1
             /\ SubSeq(trades', 1, Len(trades)) = trades
             /\ IsExit(trades'[Len(trades')])
             /\ trades'[Len(trades')].Date = LastTrade.Date
             /\ trades'[Len(trades')].Price = LastTrade.Price
             /\ cash' = CashBeforeSession
         ]_vars
    /\ [](Evaluated =>
            \A j \in Pairs :
                trades[2 * j - 1].Date = trades[2 * j].Date =>
                    /\ report.pnls[j] = R(0)
                    /\ j \notin WinPairs
                    /\ Len(report.losses) >= 1
                    /\ \A i \in DOMAIN report.profits : RGt(report.profits[i], R(0)))

\* a session of two bars entered short on its second bar; its pair is the only
\* one and sits in the loss bucket with pnl 0
C28_Witness ==
    /\ Evaluated /\ Len(trades) = 2
    /\ trades[1].Action = "SELL_SHORT" /\ trades[1].Date[2] = 2
    /\ trades[2].Date = trades[1].Date
    /\ report.losses = <<R(0)>> /\ report.profits = <<>>
    /\ report.final_value = R(INITIAL_CAPITAL)


---------------------------------------------------------------------------
(* daily_handler.py: daily_data_rvol and daily_data_atr as run_pipeline     *)
(* calls them, and the method argument of rvol and daily_data_atr          *)

\* a frame as its columns: column name -> series
Columns(df) == DOMAIN df

\* daily_data_feature(df_daily, "volume"): a copy with the one column
DailyDataFeatureVolume(df) ==
    [c \in {"volume"} |-> [i \in DOMAIN df |-> df[i].Volume]]

\* the frame `volume` after the body of daily_data_rvol: the two column
\* assignments are made on the argument itself
DailyDataRvolFrame(volume, lookback, ema) ==
    LET vol    == volume["volume"]
        avgvol == IF ema THEN ShiftSeries(Ewm(vol, lookback))
                  ELSE ShiftSeries(Sma(vol, lookback))
        rvolc  == [i \in DOMAIN vol |-> RDiv(vol[i], avgvol[i])]
    IN  [c \in Columns(volume) \cup {"avgvol", "rvol"} |->
            IF c = "avgvol" THEN avgvol
            ELSE IF c = "rvol" THEN rvolc
            ELSE volume[c]]

\* daily_data_rvol returns volume[["rvol"]].copy()
DailyDataRvol(volume, lookback, ema) ==
    DailyDataRvolFrame(volume, lookback, ema)["rvol"]

\* the method strings the calls are made with
MethodStrings == {"sma", "ewm", "hybrid", "wilder", "SMA", "Wilder", "median"}

\* str.lower() on the method strings
Lower(m) ==
    IF m = "SMA" THEN "sma" ELSE IF m = "Wilder" THEN "wilder" ELSE m

\* tr.ewm(alpha=a, adjust=False).mean()
RECURSIVE EwmAlphaAt(_, _, _)
EwmAlphaAt(x, a, i) ==
    IF i = 1 THEN x[1]
    ELSE RAdd(RMul(RSub(R(1), a), EwmAlphaAt(x, a, i - 1)), RMul(a, x[i]))

\* True Range of daily_data_atr
HandlerTrueRange(df) ==
    LET prev_close == ShiftSeries([i \in DOMAIN df |-> df[i].Close])
    IN  [i \in DOMAIN df |->
            RMax(RMax(RSub(df[i].High, df[i].Low),
                      RAbs(RSub(df[i].High, prev_close[i]))),
                 RAbs(RSub(df[i].Low, prev_close[i])))]

\* daily_data_atr: the else branch raises ValueError
DailyDataAtrRaises(method) == Lower(method) \notin {"wilder", "sma"}

DailyDataAtr(df, lookback, method) ==
    LET tr == HandlerTrueRange(df)
    IN  IF Lower(method) = "wilder"
        THEN [i \in DOMAIN df |-> EwmAlphaAt(tr, RDiv(R(1), R(lookback)), i)]
        ELSE Sma(tr, lookback)

\* rvol: the else branch of the method chain raises ValueError
\* faulty variant of RvolRaises: no check, any other method taken as hybrid
RvolRaisesNever(method) == FALSE
RvolRaises(method) == method \notin {"sma", "ewm", "hybrid"}

InitHd ==
    /\ df_daily \in [1..NBars -> IndBars]
    /\ volume_df = DailyDataFeatureVolume(df_daily)
    /\ hd_call = NoHdCall /\ hd_out = <<>> /\ hd_raised = ""

\* daily_rvol_df = daily_data_rvol(volume_df, daily_rolling_window, ema)
CallDailyDataRvol ==
    /\ hd_call.fn = "none"
    /\ \E lookback \in 1..MaxIndWindow, ema \in BOOLEAN :
          /\ hd_call' = [fn |-> "daily_data_rvol", lookback |-> lookback,
                         ema |-> ema, method |-> "", mode |-> ""]
          /\ volume_df' = DailyDataRvolFrame(volume_df, lookback, ema)
          /\ hd_out' = DailyDataRvol(volume_df, lookback, ema)
    /\ UNCHANGED <<df_daily, hd_raised>>
    /\ UNCHANGED <<btvars, cumvars, dailyvars, indvars, cfgvars>>

\* atr_df = daily_data_atr(df_daily, lookback, method)
CallDailyDataAtr ==
    /\ hd_call.fn = "none"
    /\ \E lookback \in 1..MaxIndWindow, method \in MethodStrings :
          /\ hd_call' = [fn |-> "daily_data_atr", lookback |-> lookback,
                         ema |-> FALSE, method |-> method, mode |-> ""]
          /\ IF DailyDataAtrRaises(method)
             THEN hd_raised' = "ValueError" /\ hd_out' = <<>>
             ELSE hd_raised' = "" /\ hd_out' = DailyDataAtr(df_daily, lookback, method)
    /\ UNCHANGED <<df_daily, volume_df>>
    /\ UNCHANGED <<btvars, cumvars, dailyvars, indvars, cfgvars>>

\* rvol(df_daily, window, method, alpha, mode) with any method string
CallRvolWithMethod ==
    /\ hd_call.fn = "none"
    /\ \E window \in 1..MaxIndWindow, method \in MethodStrings, mode \in Modes :
          /\ hd_call' = [fn |-> "rvol", lookback |-> window, ema |-> FALSE,
                         method |-> method, mode |-> mode]
          /\ IF RvolRaises(method)
             THEN hd_raised' = "ValueError" /\ hd_out' = <<>>
             ELSE hd_raised' = ""
                  /\ hd_out' = Rvol(df_daily, window, method, RVOL_ALPHA, mode)
    /\ UNCHANGED <<df_daily, volume_df>>
    /\ UNCHANGED <<btvars, cumvars, dailyvars, indvars, cfgvars>>

NextHd == CallDailyDataRvol \/ CallDailyDataAtr \/ CallRvolWithMethod

InitHdSpec ==
    /\ InitBacktestIdle /\ InitCumIdle /\ InitDailyIdle /\ InitIndIdle /\ InitHd
    /\ InitConfig

SpecHd == InitHdSpec /\ [][NextHd]_vars

\* C24: no function modifies the table it is given: after daily_data_rvol (and
\* the other indicator, composer and backtest functions) returns, the
\* caller's table has the columns and values it had before the call.
C24_InputsUntouched ==
    [][ (hd_call.fn = "none" /\ hd_call'.fn # "none") =>
            (volume_df' = volume_df /\ df_daily' = df_daily) ]_vars

\* what does hold: daily_data_atr and rvol leave their frame alone, and
\* daily_data_rvol adds the columns avgvol and rvol to its argument, keeping
\* the volume column
C24_OnlyDailyDataRvolWrites ==
    [][ (hd_call.fn = "none" /\ hd_call'.fn # "none") =>
            /\ df_daily' = df_daily
            /\ volume_df'["volume"] = volume_df["volume"]
            /\ IF hd_call'.fn = "daily_data_rvol"
               THEN Columns(volume_df') = {"volume", "avgvol", "rvol"}
               ELSE volume_df' = volume_df ]_vars

\* C25 as stated: rvol with a method other than 'sma', 'ewm', 'hybrid' and
\* daily_data_atr with a method other than 'sma', 'wilder' raise the
\* configuration error and return no series.
C25_InvalidMethodRaises ==
    /\ (hd_call.fn = "rvol" /\ hd_call.method \notin {"sma", "ewm", "hybrid"})
          => (hd_raised = "ValueError" /\ hd_out = <<>>)
    /\ (hd_call.fn = "daily_data_atr" /\ hd_call.method \notin {"sma", "wilder"})
          => (hd_raised = "ValueError" /\ hd_out = <<>>)

\* C25 amended: daily_data_atr compares the method without regard to case;
\* rvol compares it as given.  Every other method raises ValueError and no
\* series is returned; a valid method raises nothing.
C25_InvalidMethodRaisesModuloCase ==
    /\ hd_call.fn = "rvol" =>
          IF hd_call.method \in {"sma", "ewm", "hybrid"}
          THEN hd_raised = "" /\ Len(hd_out) = NBars
          ELSE hd_raised = "ValueError" /\ hd_out = <<>>
    /\ hd_call.fn = "daily_data_atr" =>
          IF hd_call.method \in {"sma", "wilder", "SMA", "Wilder"}
          THEN hd_raised = "" /\ Len(hd_out) = NBars
          ELSE hd_raised = "ValueError" /\ hd_out = <<>>

\* rvol was called with the method of the other function and raised
C25_Witness ==
    /\ hd_call.fn = "rvol" /\ hd_call.method = "wilder"
    /\ hd_raised = "ValueError" /\ hd_out = <<>>


---------------------------------------------------------------------------
(* intraday_handler.py: intraday_expected_cum_rvol                         *)

\* .rolling(window=w).mean(): min_periods defaults to the window, so a cell
\* is defined only when all of the last w rows are defined in that column
RollingMeanFull(mat, w) ==
    [d \in DOMAIN mat |->
        [t \in Slots |->
            IF d >= w /\ \A r \in (d - w + 1)..d : ~IsNaN(mat[r][t])
            THEN RDiv(SumRows(mat, t, d - w + 1, d), R(w))
            ELSE NaN]]

IntradayExpectedCumRvol(df_time_volume, look_back_days) ==
    Shift1(RollingMeanFull(PivotCum(df_time_volume), look_back_days))

\* the frame alone; no second input is needed here
InitIntradayHandler ==
    /\ min_df \in [Sessions -> Profiles]
    /\ alt_min_df = min_df
    /\ exp_cum = <<>> /\ alt_exp_cum = <<>>
    /\ cum_call = "none" /\ cum_window = 0 /\ joined = <<>>

CallIntradayExpectedCumRvol ==
    /\ cum_call = "none"
    /\ \E look_back_days \in 1..MaxWindow :
          /\ exp_cum' = IntradayExpectedCumRvol(min_df, look_back_days)
          /\ alt_exp_cum' = IntradayExpectedCumRvol(alt_min_df, look_back_days)
          /\ cum_window' = look_back_days
    /\ cum_call' = "intraday_expected_cum_rvol"
    /\ UNCHANGED <<min_df, alt_min_df, joined>>
    /\ UNCHANGED <<btvars, dailyvars, indvars, hdvars, cfgvars>>

NextIntradayHandler == CallIntradayExpectedCumRvol

InitIntradayHandlerSpec ==
    /\ InitBacktestIdle /\ InitIntradayHandler /\ InitDailyIdle
    /\ InitIndIdle /\ InitHdIdle /\ InitConfig

SpecIntradayHandler == InitIntradayHandlerSpec /\ [][NextIntradayHandler]_vars

\* C26: intraday_expected_cum_rvol gives a defined value for (session D,
\* time T) as soon as one of the look_back_days sessions before D has a bar
\* at T, the mean over the available ones; only the first session is
\* entirely undefined.
C26_OneObservationEnough ==
    cum_call = "intraday_expected_cum_rvol" =>
        \A D \in Sessions, T \in Slots :
            LET S == LookbackWithBar(min_df, D, T, cum_window)
            IN  IF S = {} THEN IsNaN(exp_cum[D][T])
                ELSE /\ ~IsNaN(exp_cum[D][T])
                     /\ RMul(exp_cum[D][T], R(Cardinality(S)))
                            = R(CumTotal(min_df, T, S))

\* what does hold: the value is defined exactly when all look_back_days
\* sessions before D exist and have a bar at T, and is their mean then
C26_FullWindowNeeded ==
    cum_call = "intraday_expected_cum_rvol" =>
        \A D \in Sessions, T \in Slots :
            LET S == LookbackWithBar(min_df, D, T, cum_window)
            IN  IF Cardinality(S) = cum_window
                THEN RMul(exp_cum[D][T], R(cum_window))
                         = R(CumTotal(min_df, T, S))
                ELSE IsNaN(exp_cum[D][T])


---------------------------------------------------------------------------
(* Claims about the bands of daily_indicators, over SpecDaily              *)

\* C29: Y_ATR of session D is the live-mode ATR of session D - 2 (atr in
\* backtest mode, shifted once more); Y_ATR_Upper / Y_ATR_Lower of session D
\* are Close(D-1) +- k x liveATR(D-2), undefined for the first two sessions,
\* and independent of the high and low of session D - 1.
C29_BandsUseAtrOfTwoDaysBefore ==
    daily_ind # <<>> =>
        LET live == Atr(daily_df, ATR_LOOKBACK_DAYS, "live")
            k    == ATR_BAND_MULTIPLIER
        IN  /\ \A D \in DOMAIN daily_df :
                  IF D <= 2
                  THEN /\ IsNaN(daily_ind[D].Y_ATR)
                       /\ IsNaN(daily_ind[D].Y_ATR_Upper)
                       /\ IsNaN(daily_ind[D].Y_ATR_Lower)
                  ELSE /\ daily_ind[D].Y_ATR = live[D - 2]
                       /\ daily_ind[D].Y_ATR_Upper
                             = RAdd(daily_df[D - 1].Close, RMul(k, live[D - 2]))
                       /\ daily_ind[D].Y_ATR_Lower
                             = RSub(daily_df[D - 1].Close, RMul(k, live[D - 2]))
            /\ chg_day + 1 \in DOMAIN daily_df =>
                  /\ daily_ind[chg_day + 1].Y_ATR = alt_daily_ind[chg_day + 1].Y_ATR
                  /\ RSub(daily_ind[chg_day + 1].Y_ATR_Upper,
                          daily_ind[chg_day + 1].Y_Close)
                       = RSub(alt_daily_ind[chg_day + 1].Y_ATR_Upper,
                              alt_daily_ind[chg_day + 1].Y_Close)

\* the bar of session 3 was replaced: the ATR column of session 4 moved, its
\* Y_ATR did not, and the band of session 4 is a defined value
C29_Witness ==
    /\ daily_ind # <<>> /\ chg_day = 3
    /\ daily_df[3].High # alt_daily_df[3].High
    /\ daily_ind[4].ATR # alt_daily_ind[4].ATR
    /\ daily_ind[4].Y_ATR = alt_daily_ind[4].Y_ATR
    /\ ~IsNaN(daily_ind[4].Y_ATR_Upper)
    /\ RGt(daily_ind[4].Y_ATR_Upper, daily_df[3].Close)


---------------------------------------------------------------------------
(* config.apply_runtime_overrides and cli.apply_overrides_from_args        *)

TickerArgs == {NoneArg, "", "CRCL"}
PathArgs   == {NoneArg, "out/", "/srv/market"}

CallArgs(via) ==
    [via : {via}, stock_ticker : TickerArgs, data_path : PathArgs,
     report_base_path : PathArgs, figure_base_path : PathArgs]

\* apply_runtime_overrides(**a): each argument that is not None replaces its
\* global, then the derived paths are recomputed
ApplyRuntimeOverrides(c, a) ==
    LET c1 == IF a.stock_ticker # NoneArg
              THEN [c EXCEPT !.STOCK_TICKER = a.stock_ticker] ELSE c
        c2 == IF a.data_path # NoneArg
              THEN [c1 EXCEPT !.DATA_PATH = ToPath(a.data_path)] ELSE c1
        c3 == IF a.report_base_path # NoneArg
              THEN [c2 EXCEPT !.REPORT_BASE_PATH = ToPath(a.report_base_path)] ELSE c2
        c4 == IF a.figure_base_path # NoneArg
              THEN [c3 EXCEPT !.FIGURE_BASE_PATH = ToPath(a.figure_base_path)] ELSE c3
    IN  RefreshRuntimePaths(c4)

\* `if getattr(args, name, None):` an absent or empty value is not passed on
Truthy(x) == x # NoneArg /\ x # ""

\* apply_overrides_from_args(args): the overrides dict, a missing key being
\* an omitted keyword
Overrides(a) ==
    [via |-> a.via,
     stock_ticker     |-> IF Truthy(a.stock_ticker) THEN a.stock_ticker ELSE NoneArg,
     data_path        |-> IF Truthy(a.data_path) THEN a.data_path ELSE NoneArg,
     report_base_path |-> IF Truthy(a.report_base_path) THEN a.report_base_path
                          ELSE NoneArg,
     figure_base_path |-> IF Truthy(a.figure_base_path) THEN a.figure_base_path
                          ELSE NoneArg]

HasOverride(o) ==
    \/ o.stock_ticker # NoneArg \/ o.data_path # NoneArg
    \/ o.report_base_path # NoneArg \/ o.figure_base_path # NoneArg

CallApplyRuntimeOverrides ==
    /\ \E a \in CallArgs("direct") :
          /\ config' = ApplyRuntimeOverrides(config, a)
          /\ cfg_call' = a
    /\ UNCHANGED <<btvars, cumvars, dailyvars, indvars, hdvars>>

CallApplyOverridesFromArgs ==
    /\ \E a \in CallArgs("cli") :
          /\ config' = IF HasOverride(Overrides(a))
                       THEN ApplyRuntimeOverrides(config, Overrides(a))
                       ELSE config
          /\ cfg_call' = a
    /\ UNCHANGED <<btvars, cumvars, dailyvars, indvars, hdvars>>

NextConfig == CallApplyRuntimeOverrides \/ CallApplyOverridesFromArgs

InitConfigSpec ==
    /\ InitBacktestIdle /\ InitCumIdle /\ InitDailyIdle /\ InitIndIdle
    /\ InitHdIdle /\ InitConfig

SpecConfig == InitConfigSpec /\ [][NextConfig]_vars

\* C30: after any sequence of override calls the derived paths follow the
\* base values (FIGURE_PATH = FIGURE_BASE_PATH / STOCK_TICKER, REPORT_PATH =
\* REPORT_BASE_PATH / STOCK_TICKER, INTRADAY_FILEPATH = DATA_PATH /
\* '<STOCK_TICKER>_<INTRADAY_INTERVAL>.csv'), and a base value whose argument
\* is None or omitted in a call keeps the value it had before the call.
C30_DerivedPathsConsistent ==
    /\ [](/\ config.FIGURE_PATH
                = config.FIGURE_BASE_PATH \o <<<<config.STOCK_TICKER, "">>>>
          /\ config.REPORT_PATH
                = config.REPORT_BASE_PATH \o <<<<config.STOCK_TICKER, "">>>>
          /\ config.INTRADAY_FILEPATH
                = config.DATA_PATH \o
                  <<<<config.STOCK_TICKER, config.INTRADAY_INTERVAL, ".csv">>>>)
    /\ [][ /\ cfg_call'.stock_ticker = NoneArg
                => config'.STOCK_TICKER = config.STOCK_TICKER
           /\ cfg_call'.data_path = NoneArg
                => config'.DATA_PATH = config.DATA_PATH
           /\ cfg_call'.report_base_path = NoneArg
                => config'.REPORT_BASE_PATH = config.REPORT_BASE_PATH
           /\ cfg_call'.figure_base_path = NoneArg
                => config'.FIGURE_BASE_PATH = config.FIGURE_BASE_PATH
           /\ config'.INTRADAY_INTERVAL = config.INTRADAY_INTERVAL
         ]_vars

\* a CLI call that gave the ticker alone, after an earlier call had moved the
\* data and figure directories: the paths carry the new ticker under the
\* moved directories
C30_Witness ==
    /\ cfg_call.via = "cli" /\ cfg_call.stock_ticker = "CRCL"
    /\ cfg_call.data_path = NoneArg /\ cfg_call.figure_base_path = NoneArg
    /\ config.STOCK_TICKER = "CRCL"
    /\ config.DATA_PATH = <<Dir("out")>>
    /\ config.FIGURE_BASE_PATH = <<Dir("/"), Dir("srv"), Dir("market")>>
    /\ config.INTRADAY_FILEPATH = <<Dir("out"), <<"CRCL", "60min", ".csv">>>>
    /\ config.FIGURE_PATH = <<Dir("/"), Dir("srv"), Dir("market"), Dir("CRCL")>>

==========================================================================
